---------------------------- MODULE Spec2Model ----------------------------
(***************************************************************************)
(* Model of nurkel (the N-API binding of liburkel) and of the parts of     *)
(* liburkel it rests on.                                                   *)
(*                                                                         *)
(*  - BitPath: deps/liburkel/src/bits.c, byte for byte (SpecBits).         *)
(*  - Trie, store and proofs of liburkel under the binding's transaction   *)
(*    and tree methods, in serial use (SpecData, SpecRead).                *)
(*  - Handles, async work and the thread pool (Spec).                      *)
(***************************************************************************)
EXTENDS Integers, Sequences, FiniteSets, TLC

VARIABLES
  bop,      \* BitPath harness: the operation applied last
  bin,      \* BitPath harness: the input path (urkel_bits_t)
  bkey,     \* BitPath harness: the input key (32 bytes)
  bdepth,   \* BitPath harness: the input depth or index
  bout,     \* BitPath harness: the result of the operation
  dtree,    \* serial use: the tree of liburkel (store, committed roots, root)
  dtx,      \* serial use: the transaction handle and its urkel_tx_t
  dsnap,    \* serial use: what every key read at each root when it was committed
  dcomp,    \* serial use: the store that compact wrote at its destination
  dobs,     \* serial use: the call made last and what it handed back
  ntree,    \* handles: the tree handle (nurkel_tree_t) and its urkel tree
  ntx,      \* handles: the transaction handle (nurkel_tx_t)
  niter,    \* handles: the iterator handle (nurkel_iter_t)
  works,    \* handles: the async works alive
  lobs      \* handles: the step made last and what it handed back

bitsVars == <<bop, bin, bkey, bdepth, bout>>

dataVars == <<dtree, dtx, dsnap, dcomp, dobs>>

lifeVars == <<ntree, ntx, niter, works, lobs>>

nonBitsVars == <<dataVars, lifeVars>>

nonDataVars == <<bitsVars, lifeVars>>

nonLifeVars == <<bitsVars, dataVars>>

vars == <<bop, bin, bkey, bdepth, bout, dtree, dtx, dsnap, dcomp, dobs,
          ntree, ntx, niter, works, lobs>>

(***************************************************************************)
(* Program constants                                                       *)
(***************************************************************************)
URKEL_HASH_SIZE == 32
URKEL_KEY_SIZE == URKEL_HASH_SIZE
\* common.h:32
URKEL_VALUE_SIZE == 1023
\* common.h:33
URKEL_PROOF_SIZE == 17957
URKEL_KEY_BITS == URKEL_KEY_SIZE * 8

(***************************************************************************)
(* Bounds of the BitPath harness                                           *)
(***************************************************************************)
\* sizes and depths are taken within SizeSpread of 0, 8, 128 and 256
SizeSpread == 1
\* number of byte patterns the keys and paths are built from
NumPatterns == 3

Min(a, b) == IF a < b THEN a ELSE b

(***************************************************************************)
(* urkel_bits_t: [size, data], data a sequence of 32 bytes (1-based here,  *)
(* data[i + 1] is the C data[i]).                                          *)
(***************************************************************************)
ZeroData == [j \in 1..URKEL_KEY_SIZE |-> 0]

\* the value an operator yields when a CHECK() of the code aborts the process
Aborted == [size |-> -1, data |-> ZeroData]

\* bit `index` of a byte string, most significant bit of each byte first
urkel_get_bit(key, index) ==
  (key[(index \div 8) + 1] \div (2 ^ (7 - (index % 8)))) % 2

urkel_bits_get(bits, index) == urkel_get_bit(bits.data, index)

urkel_bits_set(bits, index, bit) ==
  LET j == (index \div 8) + 1
      m == 2 ^ (7 - (index % 8))
      old == bits.data[j]
      cleared == old - ((old \div m) % 2) * m
  IN [bits EXCEPT !.data[j] = IF bit # 0 THEN cleared + m ELSE cleared]

\* bits.c:17 urkel_bits_init
urkel_bits_init(size) ==
  IF size > URKEL_KEY_BITS THEN Aborted
  ELSE [size |-> size, data |-> ZeroData]

\* bits.c:41-48, the loop of urkel_bits__count from iteration lo on: the
\* number of iterations that ran before the break (len when none broke).
\* Iteration i compares bit index + i of the path with bit depth + i of the
\* key. The iterations are taken sixteen at a time to keep the evaluation
\* shallow.
RECURSIVE urkel_bits__count_loop(_, _, _, _, _, _)
urkel_bits__count_loop(bits, index, key, depth, lo, len) ==
  LET hi == IF lo + 16 < len THEN lo + 16 ELSE len
      differ == {i \in lo..(hi - 1) :
                   urkel_bits_get(bits, index + i) # urkel_get_bit(key, depth + i)}
  IN IF lo >= len THEN len
     ELSE IF differ # {} THEN CHOOSE i \in differ : \A j \in differ : i <= j
     ELSE urkel_bits__count_loop(bits, index, key, depth, hi, len)

\* bits.c:26 urkel_bits__count; -1 when a CHECK aborts
urkel_bits__count(bits, index, key, depth) ==
  IF ~(bits.size <= URKEL_KEY_BITS /\ index <= bits.size /\ depth <= URKEL_KEY_BITS)
  THEN -1
  ELSE LET x == bits.size - index
           y == URKEL_KEY_BITS - depth
           len == IF x < y THEN x ELSE y
       IN urkel_bits__count_loop(bits, index, key, depth, 0, len)

\* a count that compares the path with the key from bit 0 of the key
urkel_bits_count_nodepth(bits, key, depth) == urkel_bits__count(bits, 0, key, 0)

\* bits.c:53 urkel_bits_count
urkel_bits_count(bits, key, depth) == urkel_bits__count(bits, 0, key, depth)

\* bits.c:60 urkel_bits_has
urkel_bits_has(bits, key, depth) == urkel_bits_count(bits, key, depth) = bits.size

\* the bytes whose bits are given by f, a function from bit index to bit
BitsToData(f) ==
  [j \in 1..URKEL_KEY_SIZE |->
     LET o == 8 * (j - 1)
     IN f[o] * 128 + f[o + 1] * 64 + f[o + 2] * 32 + f[o + 3] * 16
        + f[o + 4] * 8 + f[o + 5] * 4 + f[o + 6] * 2 + f[o + 7]]

\* bits.c:79-80, the loop of urkel_bits_slice: for every i below end - start
\* bit i of out becomes bit start + i of bits; the other bits of out stay
urkel_bits_slice_loop(out, bits, start, end) ==
  [out EXCEPT !.data =
     BitsToData([i \in 0..(URKEL_KEY_BITS - 1) |->
                   IF i < end - start THEN urkel_bits_get(bits, start + i)
                   ELSE urkel_bits_get(out, i)])]

\* bits.c:67 urkel_bits_slice
urkel_bits_slice(bits, start, end) ==
  IF ~(start <= end) THEN Aborted
  ELSE IF end - start > URKEL_KEY_BITS THEN Aborted
  ELSE urkel_bits_slice_loop(urkel_bits_init(end - start), bits, start, end)

\* a split whose right part starts at the index and keeps its bit
urkel_bits_split_keep(bits, index) ==
  [left |-> urkel_bits_slice(bits, 0, index),
   right |-> urkel_bits_slice(bits, index, bits.size)]

\* bits.c:83 urkel_bits_split
urkel_bits_split(bits, index) ==
  [left |-> urkel_bits_slice(bits, 0, index),
   right |-> urkel_bits_slice(bits, index + 1, bits.size)]

\* the reading of collide in which the result starts at bit 0 of the path
urkel_bits_collide_from0(bits, key, depth) ==
  LET size == urkel_bits__count(bits, 0, key, depth)
  IN IF size < 0 THEN Aborted ELSE urkel_bits_slice(bits, 0, size)

\* bits.c:92 urkel_bits_collide
urkel_bits_collide(bits, key, depth) ==
  LET size == urkel_bits__count(bits, depth, key, depth)
  IN IF size < 0 THEN Aborted ELSE urkel_bits_slice(bits, depth, depth + size)

\* bits.c:117-118, the loop of urkel_bits_join: for every j below right.size
\* bit first + j of out becomes bit j of right; the other bits of out stay
urkel_bits_join_loop(out, right, first) ==
  [out EXCEPT !.data =
     BitsToData([i \in 0..(URKEL_KEY_BITS - 1) |->
                   IF i >= first /\ i - first < right.size
                   THEN urkel_bits_get(right, i - first)
                   ELSE urkel_bits_get(out, i)])]

\* a join that leaves the bit between the two parts cleared
urkel_bits_join_nobit(left, right, bit) ==
  LET size == left.size + right.size + 1
      bytes == (left.size + 7) \div 8
      out0 == urkel_bits_init(size)
      out1 == [out0 EXCEPT !.data =
                 [j \in 1..URKEL_KEY_SIZE |->
                    IF j <= bytes THEN left.data[j] ELSE out0.data[j]]]
  IN IF size > URKEL_KEY_BITS THEN Aborted
     ELSE urkel_bits_join_loop(out1, right, left.size + 1)

\* a join that puts the complement of the bit between the two parts
urkel_bits_join_flip(left, right, bit) ==
  LET size == left.size + right.size + 1
      bytes == (left.size + 7) \div 8
      out0 == urkel_bits_init(size)
      out1 == [out0 EXCEPT !.data =
                 [j \in 1..URKEL_KEY_SIZE |->
                    IF j <= bytes THEN left.data[j] ELSE out0.data[j]]]
      out2 == urkel_bits_set(out1, left.size, 1 - bit)
  IN IF size > URKEL_KEY_BITS THEN Aborted
     ELSE urkel_bits_join_loop(out2, right, left.size + 1)

\* bits.c:102 urkel_bits_join
urkel_bits_join(left, right, bit) ==
  LET size == left.size + right.size + 1
      bytes == (left.size + 7) \div 8
      out0 == urkel_bits_init(size)
      out1 == [out0 EXCEPT !.data =
                 [j \in 1..URKEL_KEY_SIZE |->
                    IF j <= bytes THEN left.data[j] ELSE out0.data[j]]]
      out2 == urkel_bits_set(out1, left.size, bit)
  IN IF size > URKEL_KEY_BITS THEN Aborted
     ELSE urkel_bits_join_loop(out2, right, left.size + 1)

\* a size that counts one length byte whatever the size of the path
urkel_bits_size_short(bits) == 1 + ((bits.size + 7) \div 8)

\* bits.c:121 urkel_bits_size
urkel_bits_size(bits) ==
  (IF bits.size >= 128 THEN 1 ELSE 0) + 1 + ((bits.size + 7) \div 8)

\* urkel_write8: one byte, the value truncated to 8 bits
urkel_write8(data, word) == Append(data, word % 256)

\* bitwise or of 0x80 into a byte-sized value
Or0x80(v) == IF (v \div 128) % 2 = 1 THEN v ELSE v + 128

\* a write that leaves the marker bit out of the first length byte
urkel_bits_write_nomark(bits) ==
  LET bytes == (bits.size + 7) \div 8
      d0 == <<>>
      d1 == IF bits.size >= 128 THEN urkel_write8(d0, bits.size \div 256) ELSE d0
      d2 == urkel_write8(d1, bits.size)
  IN d2 \o [j \in 1..bytes |-> bits.data[j]]

\* bits.c:136 urkel_bits_write: the bytes appended to the output
urkel_bits_write(bits) ==
  LET bytes == (bits.size + 7) \div 8
      d0 == <<>>
      d1 == IF bits.size >= 128
            THEN urkel_write8(d0, Or0x80(bits.size \div 256)) ELSE d0
      d2 == urkel_write8(d1, bits.size)
  IN d2 \o [j \in 1..bytes |-> bits.data[j]]

\* a read that takes a two-byte length below 128
urkel_bits_read_lax(data, len) ==
  LET fail == [ok |-> 0, bits |-> urkel_bits_init(0)]
  IN IF len < 1 THEN fail
     ELSE
       LET b0 == data[1]
           two == (b0 \div 128) % 2 = 1
       IN IF two /\ len - 1 < 1 THEN fail
          ELSE
            LET size == IF two THEN (b0 - 128) * 256 + data[2] ELSE b0
                off == IF two THEN 2 ELSE 1
                rest == len - off
                bytes == (size + 7) \div 8
            IN IF size > URKEL_KEY_BITS THEN fail
               ELSE IF rest < bytes THEN fail
               ELSE [ok |-> 1,
                     bits |-> [size |-> size,
                               data |-> [j \in 1..URKEL_KEY_SIZE |->
                                           IF j <= bytes THEN data[off + j] ELSE 0]]]

\* bits.c:151 urkel_bits_read: [ok, bits] from the first len bytes of data
urkel_bits_read(data, len) ==
  LET fail == [ok |-> 0, bits |-> urkel_bits_init(0)]
  IN IF len < 1 THEN fail
     ELSE
       LET b0 == data[1]
           two == (b0 \div 128) % 2 = 1
       IN IF two /\ len - 1 < 1 THEN fail
          ELSE
            LET size == IF two THEN (b0 - 128) * 256 + data[2] ELSE b0
                off == IF two THEN 2 ELSE 1
                rest == len - off
                bytes == (size + 7) \div 8
            IN IF two /\ size < 128 THEN fail
               ELSE IF size > URKEL_KEY_BITS THEN fail
               ELSE IF rest < bytes THEN fail
               ELSE [ok |-> 1,
                     bits |-> [size |-> size,
                               data |-> [j \in 1..URKEL_KEY_SIZE |->
                                           IF j <= bytes THEN data[off + j] ELSE 0]]]

(***************************************************************************)
(* The trie of liburkel. Its sources (tree.c, nodes.c, proof.c, store.c)   *)
(* are not part of the binding's tree; the operators below follow the      *)
(* documented data model and algorithms and use the BitPath operators      *)
(* above for every edge label.                                             *)
(*                                                                         *)
(* A node is Null, a Leaf (key, value), an Internal node (prefix, left,    *)
(* right) or a pointer to a position of the store. The store is the        *)
(* append-only log of written nodes; the children of a written Internal    *)
(* node are pointers to earlier positions.                                 *)
(***************************************************************************)
NodeNull == [t |-> "null"]
NodeLeaf(key, value) == [t |-> "leaf", key |-> key, value |-> value]
NodeInternal(prefix, left, right) ==
  [t |-> "internal", prefix |-> prefix, left |-> left, right |-> right]
NodePtr(pos) == [t |-> "ptr", pos |-> pos]

\* the node a pointer stands for, read from the store
urkel_store_read(st, node) == IF node.t = "ptr" THEN st[node.pos] ELSE node

\* a key seen as a path of URKEL_KEY_BITS bits
KeyBits(key) == [size |-> URKEL_KEY_BITS, data |-> key]

\* Hasher: an injective, domain-separated hash; the digest is kept as the
\* term it was computed from
ZeroHash == <<"zero">>
HashValue(value) == <<"value", value>>
HashLeaf(key, vhash) == <<"leaf", key, vhash>>
HashInternal(prefix, left, right) ==
  <<"internal", urkel_bits_write(prefix), left, right>>

RECURSIVE urkel_node_hash(_, _)
urkel_node_hash(st, node) ==
  LET n == urkel_store_read(st, node)
  IN IF n.t = "null" THEN ZeroHash
     ELSE IF n.t = "leaf" THEN HashLeaf(n.key, HashValue(n.value))
     ELSE HashInternal(n.prefix, urkel_node_hash(st, n.left),
                       urkel_node_hash(st, n.right))

\* results of the liburkel calls: ok is the int the call returns, errno the
\* value urkel_errno holds after a failure
UrkelOk(value) == [ok |-> 1, errno |-> "URKEL_OK", value |-> value]
UrkelFail(errno) == [ok |-> 0, errno |-> errno, value |-> <<>>]

\* read path: descend from node, which sits at bit depth of the key
RECURSIVE urkel_node_get(_, _, _, _)
urkel_node_get(st, node, key, depth) ==
  LET n == urkel_store_read(st, node)
  IN IF n.t = "null" THEN UrkelFail("URKEL_ENOTFOUND")
     ELSE IF n.t = "leaf"
     THEN (IF n.key = key THEN UrkelOk(n.value) ELSE UrkelFail("URKEL_ENOTFOUND"))
     ELSE IF ~urkel_bits_has(n.prefix, key, depth) THEN UrkelFail("URKEL_ENOTFOUND")
     ELSE LET d == depth + n.prefix.size
          IN urkel_node_get(st,
                            IF urkel_get_bit(key, d) = 0 THEN n.left ELSE n.right,
                            key, d + 1)

\* write path, insert: (a) Null becomes a Leaf, (b) a Leaf with the same key
\* is replaced, (c) at another Leaf or in the middle of an edge a new
\* Internal node takes the common prefix and the two subtrees
RECURSIVE urkel_node_insert(_, _, _, _, _)
urkel_node_insert(st, node, key, value, depth) ==
  LET n == urkel_store_read(st, node)
      leaf == NodeLeaf(key, value)
  IN IF n.t = "null" THEN leaf
     ELSE IF n.t = "leaf"
     THEN (IF n.key = key THEN leaf
           ELSE LET prefix == urkel_bits_collide(KeyBits(n.key), key, depth)
                IN IF urkel_get_bit(key, depth + prefix.size) = 0
                   THEN NodeInternal(prefix, leaf, node)
                   ELSE NodeInternal(prefix, node, leaf))
     ELSE LET c == urkel_bits_count(n.prefix, key, depth)
              bit == urkel_get_bit(key, depth + c)
          IN IF c = n.prefix.size
             THEN (IF bit = 0
                   THEN NodeInternal(n.prefix,
                          urkel_node_insert(st, n.left, key, value, depth + c + 1),
                          n.right)
                   ELSE NodeInternal(n.prefix, n.left,
                          urkel_node_insert(st, n.right, key, value, depth + c + 1)))
             ELSE LET s == urkel_bits_split(n.prefix, c)
                      old == NodeInternal(s.right, n.left, n.right)
                  IN IF bit = 0
                     THEN NodeInternal(s.left, leaf, old)
                     ELSE NodeInternal(s.left, old, leaf)

\* write path, remove: the Leaf becomes Null and its parent collapses into
\* the surviving sibling, joining the two prefixes around the sibling's bit
RECURSIVE urkel_node_remove(_, _, _, _)
urkel_node_remove(st, node, key, depth) ==
  LET n == urkel_store_read(st, node)
      fail == [ok |-> 0, node |-> node]
  IN IF n.t = "null" THEN fail
     ELSE IF n.t = "leaf"
     THEN (IF n.key = key THEN [ok |-> 1, node |-> NodeNull] ELSE fail)
     ELSE IF ~urkel_bits_has(n.prefix, key, depth) THEN fail
     ELSE LET d == depth + n.prefix.size
              bit == urkel_get_bit(key, d)
              r == urkel_node_remove(st, IF bit = 0 THEN n.left ELSE n.right,
                                     key, d + 1)
              sibling == IF bit = 0 THEN n.right ELSE n.left
              s == urkel_store_read(st, sibling)
          IN IF r.ok = 0 THEN fail
             ELSE IF r.node.t = "null"
             THEN (IF s.t = "leaf" THEN [ok |-> 1, node |-> sibling]
                   ELSE [ok |-> 1,
                         node |-> NodeInternal(
                                    urkel_bits_join(n.prefix, s.prefix, 1 - bit),
                                    s.left, s.right)])
             ELSE [ok |-> 1,
                   node |-> IF bit = 0 THEN NodeInternal(n.prefix, r.node, n.right)
                            ELSE NodeInternal(n.prefix, n.left, r.node)]

\* commit: the nodes that are not in the store yet are appended bottom-up,
\* children before their parent; the result is the store and the pointer
RECURSIVE urkel_node_write(_, _)
urkel_node_write(st, node) ==
  IF node.t = "null" \/ node.t = "ptr" THEN [st |-> st, node |-> node]
  ELSE IF node.t = "leaf"
  THEN [st |-> Append(st, node), node |-> NodePtr(Len(st) + 1)]
  ELSE LET l == urkel_node_write(st, node.left)
           r == urkel_node_write(l.st, node.right)
           st2 == Append(r.st, NodeInternal(node.prefix, l.node, r.node))
       IN [st |-> st2, node |-> NodePtr(Len(st2))]

\* prove: the descent of get, recording at every Internal node passed its
\* prefix and the hash of the sibling, and ending in one of the terminal
\* forms deadend (Null), short (the prefix of an Internal node diverges
\* from the key), collision (a Leaf with another key) or exists
RECURSIVE urkel_node_prove(_, _, _, _, _)
urkel_node_prove(st, node, key, depth, nodes) ==
  LET n == urkel_store_read(st, node)
      base == [type |-> "deadend", nodes |-> nodes, prefix |-> urkel_bits_init(0),
               left |-> ZeroHash, right |-> ZeroHash, key |-> ZeroData,
               hash |-> ZeroHash, value |-> <<>>]
  IN IF n.t = "null" THEN base
     ELSE IF n.t = "leaf"
     THEN (IF n.key = key
           THEN [base EXCEPT !.type = "exists", !.value = n.value]
           ELSE [base EXCEPT !.type = "collision", !.key = n.key,
                             !.hash = HashValue(n.value)])
     ELSE IF ~urkel_bits_has(n.prefix, key, depth)
     THEN [base EXCEPT !.type = "short", !.prefix = n.prefix,
                       !.left = urkel_node_hash(st, n.left),
                       !.right = urkel_node_hash(st, n.right)]
     ELSE LET d == depth + n.prefix.size
              bit == urkel_get_bit(key, d)
              step == [prefix |-> n.prefix,
                       hash |-> urkel_node_hash(st, IF bit = 0 THEN n.right
                                                    ELSE n.left)]
          IN urkel_node_prove(st, IF bit = 0 THEN n.left ELSE n.right, key,
                              d + 1, Append(nodes, step))

\* the bit depth at which step i of a proof sits
RECURSIVE ProofDepth(_, _)
ProofDepth(nodes, i) ==
  IF i <= 1 THEN 0
  ELSE ProofDepth(nodes, i - 1) + nodes[i - 1].prefix.size + 1

\* verify, the replay from the terminal form up to the root: the hash of
\* the subtree of step i given the hash below it; "mismatch" when a prefix
\* disagrees with the key
RECURSIVE urkel_proof_replay(_, _, _, _)
urkel_proof_replay(nodes, key, i, next) ==
  IF i < 1 THEN next
  ELSE LET depth == ProofDepth(nodes, i)
           prefix == nodes[i].prefix
       IN IF depth + prefix.size >= URKEL_KEY_BITS THEN <<"mismatch">>
          ELSE IF ~urkel_bits_has(prefix, key, depth) THEN <<"mismatch">>
          ELSE urkel_proof_replay(nodes, key, i - 1,
                 IF urkel_get_bit(key, depth + prefix.size) = 0
                 THEN HashInternal(prefix, next, nodes[i].hash)
                 ELSE HashInternal(prefix, nodes[i].hash, next))

VerifyResult(ok, errno, exists, value) ==
  [ok |-> ok, errno |-> errno, exists |-> exists, value |-> value]

\* urkel_verify(&exists, value, &value_len, proof, proof_len, key, root)
urkel_verify(proof, key, root) ==
  LET depth == ProofDepth(proof.nodes, Len(proof.nodes) + 1)
      leaf == IF proof.type = "deadend" THEN ZeroHash
              ELSE IF proof.type = "short"
              THEN HashInternal(proof.prefix, proof.left, proof.right)
              ELSE IF proof.type = "collision"
              THEN HashLeaf(proof.key, proof.hash)
              ELSE HashLeaf(key, HashValue(proof.value))
      top == urkel_proof_replay(proof.nodes, key, Len(proof.nodes), leaf)
  IN IF depth > URKEL_KEY_BITS
     THEN VerifyResult(0, "URKEL_ETOODEEP", 0, <<>>)
     ELSE IF proof.type = "short" /\ urkel_bits_has(proof.prefix, key, depth)
     THEN VerifyResult(0, "URKEL_ESAMEPATH", 0, <<>>)
     ELSE IF proof.type = "collision" /\ proof.key = key
     THEN VerifyResult(0, "URKEL_ESAMEKEY", 0, <<>>)
     ELSE IF top = <<"mismatch">>
     THEN VerifyResult(0, "URKEL_EPATHMISMATCH", 0, <<>>)
     ELSE IF top # root
     THEN VerifyResult(0, "URKEL_EHASHMISMATCH", 0, <<>>)
     ELSE IF proof.type = "exists"
     THEN VerifyResult(1, "URKEL_OK", 1, proof.value)
     ELSE VerifyResult(1, "URKEL_OK", 0, <<>>)

(***************************************************************************)
(* The calls of liburkel the binding makes. A tree is the record           *)
(* [store, roots, root]: the log, the committed roots (hash and pointer)   *)
(* and the current root. A transaction is [root, init]: its working root   *)
(* and the root it was created against.                                    *)
(***************************************************************************)
\* urkel_root(tree, hash)
urkel_root(tree) == urkel_node_hash(tree.store, tree.root)

\* urkel_get(tree, value, &len, key, NULL)
urkel_get(tree, key) == urkel_node_get(tree.store, tree.root, key, 0)

\* urkel_has(tree, key, NULL)
urkel_has(tree, key) ==
  LET r == urkel_get(tree, key) IN [ok |-> r.ok, errno |-> r.errno]

\* urkel_prove(tree, &proof, &len, key, NULL)
urkel_prove(tree, key) ==
  [ok |-> 1, errno |-> "URKEL_OK",
   proof |-> urkel_node_prove(tree.store, tree.root, key, 0, <<>>)]

\* the committed root with the given hash, Null for the hash of the empty
\* tree; found is 0 when the store holds no such root
urkel_find_root(tree, hash) ==
  IF hash = ZeroHash THEN [found |-> 1, node |-> NodeNull]
  ELSE IF \E i \in 1..Len(tree.roots) : tree.roots[i].hash = hash
  THEN [found |-> 1,
        node |-> tree.roots[CHOOSE i \in 1..Len(tree.roots) :
                              tree.roots[i].hash = hash].node]
  ELSE [found |-> 0, node |-> NodeNull]

\* urkel_tx_create(tree, root): NULL when the root is not in the store
urkel_tx_create(tree, hash) ==
  LET f == urkel_find_root(tree, hash)
  IN IF f.found = 0 THEN [ok |-> 0, errno |-> "URKEL_ENOTFOUND", tx |-> NodeNull]
     ELSE [ok |-> 1, errno |-> "URKEL_OK",
           tx |-> [root |-> f.node, init |-> f.node]]

\* urkel_tx_root(tx, hash)
urkel_tx_root(tree, tx) == urkel_node_hash(tree.store, tx.root)

\* urkel_tx_get(tx, value, &len, key)
urkel_tx_get(tree, tx, key) == urkel_node_get(tree.store, tx.root, key, 0)

\* urkel_tx_has(tx, key)
urkel_tx_has(tree, tx, key) ==
  LET r == urkel_tx_get(tree, tx, key) IN [ok |-> r.ok, errno |-> r.errno]

\* urkel_tx_insert(tx, key, value, len): a value of more than 1023 bytes
\* is refused
urkel_tx_insert(tree, tx, key, value) ==
  IF Len(value) > URKEL_VALUE_SIZE
  THEN [ok |-> 0, errno |-> "URKEL_EINVAL", tx |-> tx]
  ELSE [ok |-> 1, errno |-> "URKEL_OK",
        tx |-> [tx EXCEPT !.root = urkel_node_insert(tree.store, tx.root, key, value, 0)]]

\* urkel_tx_remove(tx, key)
urkel_tx_remove(tree, tx, key) ==
  LET r == urkel_node_remove(tree.store, tx.root, key, 0)
  IN IF r.ok = 0 THEN [ok |-> 0, errno |-> "URKEL_ENOTFOUND", tx |-> tx]
     ELSE [ok |-> 1, errno |-> "URKEL_OK", tx |-> [tx EXCEPT !.root = r.node]]

\* urkel_tx_prove(tx, &proof, &len, key)
urkel_tx_prove(tree, tx, key) ==
  [ok |-> 1, errno |-> "URKEL_OK",
   proof |-> urkel_node_prove(tree.store, tx.root, key, 0, <<>>)]

\* urkel_tx_clear(tx): the edits are dropped
urkel_tx_clear(tx) == [tx EXCEPT !.root = tx.init]

\* urkel_tx_commit(tx): the new nodes are appended and the new root becomes
\* the root of the tree and of the transaction; without edits nothing is
\* written (URKEL_ENOUPDATE)
urkel_tx_commit(tree, tx) ==
  LET w == urkel_node_write(tree.store, tx.root)
  IN IF tx.root = tx.init
     THEN [ok |-> 0, errno |-> "URKEL_ENOUPDATE", tree |-> tree, tx |-> tx]
     ELSE [ok |-> 1, errno |-> "URKEL_OK",
           tree |-> [store |-> w.st,
                     roots |-> Append(tree.roots,
                                      [hash |-> urkel_node_hash(w.st, w.node),
                                       node |-> w.node]),
                     root |-> w.node],
           tx |-> [root |-> w.node, init |-> w.node]]

\* compaction, the copy of the nodes reachable from node into the store
\* dst, children before their parent: the store and the pointer
RECURSIVE urkel_node_copy(_, _, _)
urkel_node_copy(st, node, dst) ==
  LET n == urkel_store_read(st, node)
  IN IF n.t = "null" THEN [st |-> dst, node |-> NodeNull]
     ELSE IF n.t = "leaf"
     THEN [st |-> Append(dst, n), node |-> NodePtr(Len(dst) + 1)]
     ELSE LET l == urkel_node_copy(st, n.left, dst)
              r == urkel_node_copy(st, n.right, l.st)
              st2 == Append(r.st, NodeInternal(n.prefix, l.node, r.node))
          IN [st |-> st2, node |-> NodePtr(Len(st2))]

\* no store at the destination of compact
NoStore == [exists |-> FALSE,
            tree |-> [store |-> <<>>, roots |-> <<>>, root |-> NodeNull]]

\* urkel_compact(dst, src, root): the nodes reachable from the root (the
\* current root when root is NULL) are written to a fresh store, of which
\* it is the only root; URKEL_EBADOPEN when the root is not in src
urkel_compact(src, root) ==
  LET f == IF root = <<"null">> THEN [found |-> 1, node |-> src.root]
           ELSE urkel_find_root(src, root)
      w == urkel_node_copy(src.store, f.node, <<>>)
  IN IF f.found = 0 THEN [ok |-> 0, errno |-> "URKEL_EBADOPEN", dst |-> NoStore]
     ELSE [ok |-> 1, errno |-> "URKEL_OK",
           dst |-> [exists |-> TRUE,
                    tree |-> [store |-> w.st,
                              roots |-> IF w.node = NodeNull THEN <<>>
                                        ELSE <<[hash |-> urkel_node_hash(w.st, w.node),
                                                node |-> w.node]>>,
                              root |-> w.node]]]

(***************************************************************************)
(* The binding: what a method hands back to JavaScript. A sync method      *)
(* returns or throws, an async method resolves or rejects its promise.     *)
(***************************************************************************)
JsNull == <<"null">>
JsUndefined == <<"undefined">>
JsBuffer(bytes) == <<"buffer", bytes>>
JsBoolean(b) == <<"boolean", b>>
JsArray(code, value) == <<"array", code, value>>

JsReturn(val) == [kind |-> "return", val |-> val]
JsThrow(code) == [kind |-> "throw", val |-> <<"error", code>>]
JsResolve(val) == [kind |-> "resolve", val |-> val]
JsReject(code) == [kind |-> "reject", val |-> <<"error", code>>]

\* WORKER_INIT and the out fields of a worker
Worker == [success |-> FALSE, err_res |-> "URKEL_OK", out_has_key |-> FALSE,
           out_value |-> <<>>, out_hash |-> ZeroHash, out_exists |-> 0,
           out_proof |-> NodeNull]

\* tree.c:675 nurkel_tree_get_sync
nurkel_tree_get_sync(tree, key) ==
  LET res == urkel_get(tree, key)
  IN IF res.ok = 1 THEN JsReturn(JsBuffer(res.value))
     ELSE IF res.errno = "URKEL_ENOTFOUND" THEN JsReturn(JsNull)
     ELSE JsThrow(res.errno)

\* tree.c:708 nurkel_tree_get_exec
nurkel_tree_get_exec(tree, key) ==
  LET res == urkel_get(tree, key)
  IN IF res.ok = 1
     THEN [Worker EXCEPT !.success = TRUE, !.out_has_key = TRUE,
                         !.out_value = res.value]
     ELSE IF res.errno = "URKEL_ENOTFOUND"
     THEN [Worker EXCEPT !.success = TRUE, !.out_has_key = FALSE]
     ELSE [Worker EXCEPT !.success = FALSE, !.err_res = res.errno]

\* tree.c:735 nurkel_tree_get_complete
nurkel_tree_get_complete(worker) ==
  IF worker.success = FALSE THEN JsReject(worker.err_res)
  ELSE IF ~worker.out_has_key THEN JsResolve(JsNull)
  ELSE JsResolve(JsBuffer(worker.out_value))

\* tree.c:807 nurkel_tree_has_sync
nurkel_tree_has_sync(tree, key) ==
  LET res == urkel_has(tree, key)
  IN IF res.ok = 0 /\ res.errno # "URKEL_ENOTFOUND" THEN JsThrow(res.errno)
     ELSE JsReturn(JsBoolean(res.ok = 1))

\* tree.c:829 nurkel_tree_has_exec
nurkel_tree_has_exec(tree, key) ==
  LET res == urkel_has(tree, key)
  IN IF res.ok = 0
     THEN (IF res.errno # "URKEL_ENOTFOUND"
           THEN [Worker EXCEPT !.success = FALSE, !.err_res = res.errno]
           ELSE [Worker EXCEPT !.success = TRUE, !.out_has_key = FALSE])
     ELSE [Worker EXCEPT !.success = TRUE, !.out_has_key = TRUE]

\* tree.c:851 nurkel_tree_has_complete
nurkel_tree_has_complete(worker) ==
  IF worker.success = FALSE THEN JsReject(worker.err_res)
  ELSE JsResolve(JsBoolean(worker.out_has_key))

\* nurkel.c:1569 nurkel_get_sync
nurkel_get_sync(tree, key) ==
  LET res == urkel_get(tree, key)
  IN IF res.ok = 0 THEN JsThrow(res.errno)
     ELSE JsReturn(JsBuffer(res.value))

\* nurkel.c:1593 nurkel_get_exec
nurkel_get_exec(tree, key) ==
  LET res == urkel_get(tree, key)
  IN IF res.ok = 0 THEN [Worker EXCEPT !.success = FALSE, !.err_res = res.errno]
     ELSE [Worker EXCEPT !.success = TRUE, !.out_value = res.value]

\* nurkel.c:1611 nurkel_get_complete
nurkel_get_complete(worker) ==
  IF worker.success = FALSE THEN JsReject(worker.err_res)
  ELSE JsResolve(JsBuffer(worker.out_value))

\* tree.c:966 nurkel_tree_prove_exec
nurkel_tree_prove_exec(tree, key) ==
  LET res == urkel_prove(tree, key)
  IN IF res.ok = 0 THEN [Worker EXCEPT !.success = FALSE, !.err_res = res.errno]
     ELSE [Worker EXCEPT !.success = TRUE, !.out_proof = res.proof]

\* tree.c:982 nurkel_tree_prove_complete
nurkel_tree_prove_complete(worker) ==
  IF worker.success = FALSE THEN JsReject(worker.err_res)
  ELSE JsResolve(JsBuffer(worker.out_proof))

\* tree.c:1177 nurkel_verify_exec
nurkel_verify_exec(root, key, proof) ==
  LET res == urkel_verify(proof, key, root)
  IN IF res.ok = 0 THEN [Worker EXCEPT !.success = FALSE, !.err_res = res.errno]
     ELSE [Worker EXCEPT !.success = TRUE, !.out_exists = res.exists,
                         !.out_value = res.value]

\* nurkel_verify_complete without the test of out_exists
nurkel_verify_complete_noexists(worker) ==
  IF worker.success = FALSE THEN JsResolve(JsArray(worker.err_res, JsNull))
  ELSE JsResolve(JsArray("URKEL_OK", JsBuffer(worker.out_value)))

\* tree.c:1197 nurkel_verify_complete
nurkel_verify_complete(worker) ==
  IF worker.success = FALSE THEN JsResolve(JsArray(worker.err_res, JsNull))
  ELSE IF worker.out_exists # 0
  THEN JsResolve(JsArray("URKEL_OK", JsBuffer(worker.out_value)))
  ELSE JsResolve(JsArray("URKEL_OK", JsNull))

\* tree.c:1509 nurkel_compact_sync: root is JsNull or a hash
nurkel_compact_sync(src, root) ==
  LET res == urkel_compact(src, root)
  IN IF res.ok = 0 THEN [out |-> JsThrow(res.errno), dst |-> res.dst]
     ELSE [out |-> JsReturn(JsUndefined), dst |-> res.dst]

\* nurkel_compact_exec that leaves in_root out: the current root is compacted
nurkel_compact_exec_current(src, in_root) ==
  LET res == urkel_compact(src, JsNull)
  IN [worker |-> [Worker EXCEPT !.success = TRUE], dst |-> res.dst]

\* tree.c:1552 nurkel_compact_exec
nurkel_compact_exec(src, in_root) ==
  LET res == urkel_compact(src, in_root)
  IN IF res.ok = 0
     THEN [worker |-> [Worker EXCEPT !.success = FALSE, !.err_res = res.errno],
           dst |-> res.dst]
     ELSE [worker |-> [Worker EXCEPT !.success = TRUE], dst |-> res.dst]

\* tree.c:1566 nurkel_compact_complete
nurkel_compact_complete(worker) ==
  IF worker.success = FALSE THEN JsReject(worker.err_res)
  ELSE JsResolve(JsUndefined)

\* verify_sync that reports URKEL_OK whatever urkel_verify returned
nurkel_verify_sync_ok(root, key, proof) ==
  LET res == urkel_verify(proof, key, root)
  IN IF res.exists # 0 THEN JsReturn(JsArray("URKEL_OK", JsBuffer(res.value)))
     ELSE JsReturn(JsArray("URKEL_OK", JsNull))

\* tree.c:1120 nurkel_verify_sync: the array [code, value]
nurkel_verify_sync(root, key, proof) ==
  LET res == urkel_verify(proof, key, root)
  IN IF res.ok = 0 THEN JsReturn(JsArray(res.errno, JsNull))
     ELSE IF res.exists # 0
     THEN JsReturn(JsArray("URKEL_OK", JsBuffer(res.value)))
     ELSE JsReturn(JsArray("URKEL_OK", JsNull))

\* transaction.c:1072 nurkel_tx_prove_sync
nurkel_tx_prove_sync(tree, tx, key) ==
  LET res == urkel_tx_prove(tree, tx, key)
  IN IF res.ok = 0 THEN JsThrow(res.errno)
     ELSE JsReturn(JsBuffer(res.proof))

\* nurkel_tx_open_exec that creates the transaction against the current root
nurkel_tx_open_exec_current(tree, init_root) ==
  LET res == urkel_tx_create(tree, urkel_root(tree))
  IN [worker |-> [Worker EXCEPT !.success = TRUE], tx |-> res.tx]

\* transaction.c:371 nurkel_tx_open_exec: the transaction created against
\* init_root, or the failure
nurkel_tx_open_exec(tree, init_root) ==
  LET res == urkel_tx_create(tree, init_root)
  IN IF res.ok = 0
     THEN [worker |-> [Worker EXCEPT !.success = FALSE, !.err_res = res.errno],
           tx |-> res.tx]
     ELSE [worker |-> [Worker EXCEPT !.success = TRUE], tx |-> res.tx]

\* transaction.c:516 nurkel_tx_root_hash_sync
nurkel_tx_root_hash_sync(tree, tx) == JsReturn(JsBuffer(urkel_tx_root(tree, tx)))

\* transaction.c:606 nurkel_tx_get_sync
nurkel_tx_get_sync(tree, tx, key) ==
  LET res == urkel_tx_get(tree, tx, key)
  IN IF res.ok = 1 THEN JsReturn(JsBuffer(res.value))
     ELSE IF res.errno = "URKEL_ENOTFOUND" THEN JsReturn(JsNull)
     ELSE JsThrow(res.errno)

\* transaction.c:648 nurkel_tx_get_exec
nurkel_tx_get_exec(tree, tx, key) ==
  LET res == urkel_tx_get(tree, tx, key)
  IN IF res.ok = 1
     THEN [Worker EXCEPT !.success = TRUE, !.out_has_key = TRUE,
                         !.out_value = res.value]
     ELSE IF res.errno = "URKEL_ENOTFOUND"
     THEN [Worker EXCEPT !.success = TRUE, !.out_has_key = FALSE]
     ELSE [Worker EXCEPT !.success = FALSE, !.err_res = res.errno]

\* transaction.c:674 nurkel_tx_get_complete
nurkel_tx_get_complete(worker) ==
  IF worker.success = FALSE THEN JsReject(worker.err_res)
  ELSE IF ~worker.out_has_key THEN JsResolve(JsNull)
  ELSE JsResolve(JsBuffer(worker.out_value))

\* transaction.c:744 nurkel_tx_has_sync
nurkel_tx_has_sync(tree, tx, key) ==
  LET res == urkel_tx_has(tree, tx, key)
  IN IF res.ok = 0 /\ res.errno # "URKEL_ENOTFOUND" THEN JsThrow(res.errno)
     ELSE JsReturn(JsBoolean(res.ok = 1))

\* transaction.c:766 nurkel_tx_has_exec
nurkel_tx_has_exec(tree, tx, key) ==
  LET res == urkel_tx_has(tree, tx, key)
  IN IF res.ok = 0
     THEN (IF res.errno # "URKEL_ENOTFOUND"
           THEN [Worker EXCEPT !.success = FALSE, !.err_res = res.errno]
           ELSE [Worker EXCEPT !.success = TRUE, !.out_has_key = FALSE])
     ELSE [Worker EXCEPT !.success = TRUE, !.out_has_key = TRUE]

\* transaction.c:788 nurkel_tx_has_complete
nurkel_tx_has_complete(worker) ==
  IF worker.success = FALSE THEN JsReject(worker.err_res)
  ELSE JsResolve(JsBoolean(worker.out_has_key))

\* tree.c:1120 nurkel_verify_sync with the length of the buffer of the
\* proof: JS_ASSERT(proof_len <= URKEL_PROOF_SIZE) comes before urkel_verify
nurkel_verify_sync_len(root, key, proof, proof_len) ==
  IF ~(proof_len <= URKEL_PROOF_SIZE) THEN JsThrow("JS_ERR_ARG")
  ELSE nurkel_verify_sync(root, key, proof)

\* urkel_verify in tree.c:1177 nurkel_verify_exec with the length of the
\* buffer of the proof: a buffer longer than a proof can be is malformed
nurkel_verify_exec_len(root, key, proof, proof_len) ==
  IF proof_len > URKEL_PROOF_SIZE
  THEN [Worker EXCEPT !.success = FALSE, !.err_res = "URKEL_EINVAL"]
  ELSE nurkel_verify_exec(root, key, proof)

\* util.c:134 nurkel_get_buffer_copy of a buffer: the length has to be the
\* expected one, or at most the expected one with expect_lte
nurkel_get_buffer_copy(value, expected, expect_lte) ==
  IF expected # 0 /\ ~expect_lte /\ Len(value) # expected THEN "napi_invalid_arg"
  ELSE IF expected # 0 /\ expect_lte /\ Len(value) > expected THEN "napi_invalid_arg"
  ELSE "napi_ok"

\* util.h:81 NURKEL_JS_HASH
NURKEL_JS_HASH(arg) == nurkel_get_buffer_copy(arg, URKEL_HASH_SIZE, FALSE)

\* transaction.c:852 nurkel_tx_insert_sync
nurkel_tx_insert_sync(tree, tx, key, value) ==
  LET res == urkel_tx_insert(tree, tx, key, value)
  IN IF NURKEL_JS_HASH(key) # "napi_ok" THEN [out |-> JsThrow("JS_ERR_ARG"), tx |-> tx]
     ELSE IF ~(Len(value) <= URKEL_VALUE_SIZE)
     THEN [out |-> JsThrow("JS_ERR_ARG"), tx |-> tx]
     ELSE IF res.ok = 0 THEN [out |-> JsThrow(res.errno), tx |-> res.tx]
     ELSE [out |-> JsReturn(JsUndefined), tx |-> res.tx]

\* nurkel_tx_insert_exec that passes an empty value on
nurkel_tx_insert_exec_novalue(tree, tx, key, value) ==
  LET res == urkel_tx_insert(tree, tx, key, <<>>)
  IN [worker |-> [Worker EXCEPT !.success = TRUE], tx |-> res.tx]

\* transaction.c:882 nurkel_tx_insert_exec
nurkel_tx_insert_exec(tree, tx, key, value) ==
  LET res == urkel_tx_insert(tree, tx, key, value)
  IN IF res.ok = 0
     THEN [worker |-> [Worker EXCEPT !.success = FALSE, !.err_res = res.errno],
           tx |-> res.tx]
     ELSE [worker |-> [Worker EXCEPT !.success = TRUE], tx |-> res.tx]

\* transaction.c:898 nurkel_tx_insert_complete
nurkel_tx_insert_complete(worker) ==
  IF worker.success = FALSE THEN JsReject(worker.err_res)
  ELSE JsResolve(JsUndefined)

\* transaction.c:921 nurkel_tx_insert: the method throws on a bad argument
\* before it makes the work; otherwise the work runs and the promise settles
nurkel_tx_insert(tree, tx, key, value) ==
  LET e == nurkel_tx_insert_exec(tree, tx, key, value)
  IN IF NURKEL_JS_HASH(key) # "napi_ok" THEN [out |-> JsThrow("JS_ERR_ARG"), tx |-> tx]
     ELSE IF nurkel_get_buffer_copy(value, URKEL_VALUE_SIZE, TRUE) # "napi_ok"
     THEN [out |-> JsThrow("JS_ERR_ARG"), tx |-> tx]
     ELSE [out |-> nurkel_tx_insert_complete(e.worker), tx |-> e.tx]

\* transaction.c:974 nurkel_tx_remove_sync
nurkel_tx_remove_sync(tree, tx, key) ==
  LET res == urkel_tx_remove(tree, tx, key)
  IN IF res.ok = 0 THEN [out |-> JsThrow(res.errno), tx |-> res.tx]
     ELSE [out |-> JsReturn(JsUndefined), tx |-> res.tx]

\* nurkel_tx_remove_exec that reports success without the remove
nurkel_tx_remove_exec_keep(tree, tx, key) ==
  [worker |-> [Worker EXCEPT !.success = TRUE], tx |-> tx]

\* transaction.c:992 nurkel_tx_remove_exec
nurkel_tx_remove_exec(tree, tx, key) ==
  LET res == urkel_tx_remove(tree, tx, key)
  IN IF res.ok = 0
     THEN [worker |-> [Worker EXCEPT !.success = FALSE, !.err_res = res.errno],
           tx |-> res.tx]
     ELSE [worker |-> [Worker EXCEPT !.success = TRUE], tx |-> res.tx]

\* transaction.c:1007 nurkel_tx_remove_complete
nurkel_tx_remove_complete(worker) ==
  IF worker.success = FALSE THEN JsReject(worker.err_res)
  ELSE JsResolve(JsUndefined)

\* transaction.c:1188 nurkel_tx_commit_sync
nurkel_tx_commit_sync(tree, tx) ==
  LET res == urkel_tx_commit(tree, tx)
  IN IF res.ok = 0
     THEN [out |-> JsThrow(res.errno), tree |-> res.tree, tx |-> res.tx]
     ELSE [out |-> JsReturn(JsBuffer(urkel_tx_root(res.tree, res.tx))),
           tree |-> res.tree, tx |-> res.tx]

\* transaction.c:1209 nurkel_tx_commit_exec
nurkel_tx_commit_exec(tree, tx) ==
  LET res == urkel_tx_commit(tree, tx)
  IN IF res.ok = 0
     THEN [worker |-> [Worker EXCEPT !.success = FALSE, !.err_res = res.errno],
           tree |-> res.tree, tx |-> res.tx]
     ELSE [worker |-> [Worker EXCEPT !.success = TRUE,
                                     !.out_hash = urkel_tx_root(res.tree, res.tx)],
           tree |-> res.tree, tx |-> res.tx]

\* transaction.c:1225 nurkel_tx_commit_complete
nurkel_tx_commit_complete(worker) ==
  IF worker.success = FALSE THEN JsReject(worker.err_res)
  ELSE JsResolve(JsBuffer(worker.out_hash))

\* nurkel_tx_clear_sync without the call of urkel_tx_clear
nurkel_tx_clear_sync_keep(tx) == [out |-> JsReturn(JsUndefined), tx |-> tx]

\* transaction.c:1286 nurkel_tx_clear_sync
nurkel_tx_clear_sync(tx) == [out |-> JsReturn(JsUndefined), tx |-> urkel_tx_clear(tx)]

(***************************************************************************)
(* BitPath harness: inputs                                                 *)
(***************************************************************************)
Sizes == {s \in 0..URKEL_KEY_BITS :
            \E c \in {0, 8, 128, URKEL_KEY_BITS} :
              s >= c - SizeSpread /\ s <= c + SizeSpread}

\* byte j (0-based) of pattern p
PatByte(p, j) == (p * 85 + p * j * 51) % 256

PatKey(p) == [j \in 1..URKEL_KEY_SIZE |-> PatByte(p, j - 1)]

Patterns == 0..(NumPatterns - 1)

\* the key with one bit flipped
FlipBit(key, index) ==
  LET j == (index \div 8) + 1
      m == 2 ^ (7 - (index % 8))
  IN [key EXCEPT ![j] = IF (@ \div m) % 2 = 1 THEN @ - m ELSE @ + m]

\* the first `size` bits of a byte string as a valid path: every bit at or
\* after `size` is zero
MaskedPath(key, size) ==
  [size |-> size,
   data |-> [j \in 1..URKEL_KEY_SIZE |->
               LET first == 8 * (j - 1)
               IN IF first + 8 <= size THEN key[j]
                  ELSE IF first >= size THEN 0
                  ELSE LET keep == size - first
                           m == 2 ^ (8 - keep)
                       IN (key[j] \div m) * m]]

ValidBits(bits) ==
  /\ bits.size >= 0 /\ bits.size <= URKEL_KEY_BITS
  /\ \A i \in bits.size..(URKEL_KEY_BITS - 1) : urkel_bits_get(bits, i) = 0

\* the paths of every size built from a pattern, as they are or with their
\* first or their last bit flipped
Paths == {MaskedPath(PatKey(p), s) : p \in Patterns, s \in Sizes}
         \cup {MaskedPath(FlipBit(PatKey(p), 0), s) :
                 p \in Patterns, s \in Sizes \ {0}}
         \cup {MaskedPath(FlipBit(PatKey(p), s - 1), s) :
                 p \in Patterns, s \in Sizes \ {0}}

\* paths whose bits past the size are not cleared
RawPaths == {[size |-> s, data |-> PatKey(p)] : p \in Patterns \ {0}, s \in Sizes}

NoOut == [ok |-> 0, bits |-> urkel_bits_init(0), bytes |-> <<>>, n |-> 0,
          left |-> urkel_bits_init(0), right |-> urkel_bits_init(0)]

BitsStart ==
  /\ bop = "none"
  /\ bin = urkel_bits_init(0)
  /\ bkey = ZeroData
  /\ bdepth = 0
  /\ bout = NoOut

\* write a path, then read the written bytes back
BitsWriteRead ==
  \E p \in Paths \cup RawPaths :
    LET w == urkel_bits_write(p)
        r == urkel_bits_read(w, Len(w))
    IN /\ bop = "none"
       /\ bop' = "write_read"
       /\ bin' = p
       /\ bout' = [NoOut EXCEPT !.ok = r.ok, !.bits = r.bits, !.bytes = w,
                                !.n = Len(w)]
       /\ UNCHANGED <<bkey, bdepth>>
       /\ UNCHANGED nonBitsVars

\* collide a path with a key at a depth
BitsCollide ==
  \E p \in Paths, k \in Patterns, d \in Sizes :
    LET c == urkel_bits_collide(p, PatKey(k), d)
    IN /\ bop = "none"
       /\ bop' = "collide"
       /\ bin' = p
       /\ bkey' = PatKey(k)
       /\ bdepth' = d
       /\ bout' = [NoOut EXCEPT !.ok = IF c = Aborted THEN 0 ELSE 1, !.bits = c]
       /\ UNCHANGED nonBitsVars

\* the indexes a path is split at: around 0, 8 and 128 and at its last bits
SplitIndexes(p) ==
  {i \in Sizes \cup {p.size - 2, p.size - 1} : i >= 0 /\ i < p.size}

\* split a path at an index, then join the two parts around the bit that
\* sat at the index
BitsSplitJoin ==
  \E p \in Paths :
    \E i \in SplitIndexes(p) :
      LET s == urkel_bits_split(p, i)
          j == urkel_bits_join(s.left, s.right, urkel_bits_get(p, i))
      IN /\ bop = "none"
         /\ bop' = "split_join"
         /\ bin' = p
         /\ bdepth' = i
         /\ bout' = [NoOut EXCEPT !.ok = IF j = Aborted THEN 0 ELSE 1,
                                  !.bits = j, !.left = s.left, !.right = s.right]
         /\ UNCHANGED bkey
         /\ UNCHANGED nonBitsVars

\* join two paths around a bit
BitsJoin ==
  \E l \in Paths, r \in Paths, bit \in {0, 1} :
    LET j == urkel_bits_join(l, r, bit)
    IN /\ bop = "none"
       /\ bop' = "join"
       /\ bin' = l
       /\ bout' = [NoOut EXCEPT !.ok = IF j = Aborted THEN 0 ELSE 1,
                                !.bits = j, !.left = l, !.right = r, !.n = bit]
       /\ UNCHANGED <<bkey, bdepth>>
       /\ UNCHANGED nonBitsVars

\* the length bytes of the buffers read: none, the one-byte and the
\* two-byte form of the sizes, a first byte without its second, two-byte
\* forms of sizes that fit in one byte and of sizes past URKEL_KEY_BITS
ReadHeads ==
  {<<>>, <<128>>, <<129>>, <<130, 0>>, <<255, 255>>}
  \cup {<<sz>> : sz \in {x \in Sizes : x < 128}}
  \cup {<<128, sz>> : sz \in {x \in Sizes : x < 128}}
  \cup {<<128 + (sz \div 256), sz % 256>> : sz \in {x \in Sizes : x >= 128}}
  \cup {<<129, sz>> : sz \in {x \in Sizes : x > 0 /\ x < 128}}

\* the numbers of data bytes that follow them
ReadLens == {n \in 0..(URKEL_KEY_SIZE + 1) :
               \E c \in {0, 1, 16, URKEL_KEY_SIZE} :
                 n >= c - SizeSpread /\ n <= c + SizeSpread}

\* read a buffer of arbitrary bytes
BitsRead ==
  \E head \in ReadHeads, p \in Patterns, n \in ReadLens :
    LET buf == head \o [j \in 1..n |-> PatByte(p, j - 1)]
        r == urkel_bits_read(buf, Len(buf))
    IN /\ bop = "none"
       /\ bop' = "read"
       /\ bout' = [NoOut EXCEPT !.ok = r.ok, !.bits = r.bits, !.bytes = buf,
                                !.n = Len(buf)]
       /\ UNCHANGED <<bin, bkey, bdepth>>
       /\ UNCHANGED nonBitsVars

\* the bits depth .. depth + size - 1 of a key as a path, as they are or
\* with the last of them flipped
KeyPaths(key, depth) ==
  {urkel_bits_slice(KeyBits(key), depth, depth + sz) :
     sz \in {x \in Sizes : depth + x <= URKEL_KEY_BITS}}
  \cup {urkel_bits_slice(KeyBits(FlipBit(key, depth + sz - 1)), depth, depth + sz) :
          sz \in {x \in Sizes : x > 0 /\ depth + x <= URKEL_KEY_BITS}}

\* count the leading bits of a path that agree with a key from a depth on
BitsCount ==
  \E k \in Patterns, d \in Sizes :
    \E p \in Paths \cup KeyPaths(PatKey(k), d) :
      /\ bop = "none"
      /\ bop' = "count"
      /\ bin' = p
      /\ bkey' = PatKey(k)
      /\ bdepth' = d
      /\ bout' = [NoOut EXCEPT !.ok = 1, !.n = urkel_bits_count(p, PatKey(k), d)]
      /\ UNCHANGED nonBitsVars

NextBits ==
  \/ BitsWriteRead
  \/ BitsCollide
  \/ BitsSplitJoin
  \/ BitsRead
  \/ BitsCount
  \/ BitsJoin

(***************************************************************************)
(* Serial use of one tree and one transaction (SpecData): every call runs  *)
(* to its result before the next one starts. dobs holds the call made last *)
(* and what it handed back; DReturn is JavaScript taking the result.       *)
(***************************************************************************)
\* number of commits made on the tree
MaxCommits == 2

DKeyA == PatKey(1)
DKeyB == FlipBit(DKeyA, 17)
DKeyC == FlipBit(DKeyA, 8)
DKeys == {DKeyA, DKeyB, DKeyC}

\* the inserts made
DInserts == {<<DKeyA, <<1>>>>, <<DKeyB, <<1>>>>, <<DKeyC, <<2, 2>>>>}

\* a hash no commit returned
UnknownRoot == HashLeaf(ZeroData, ZeroHash)

\* urkel_open on an empty directory
EmptyTree == [store |-> <<>>, roots |-> <<>>, root |-> NodeNull]

\* nurkel_ntx_init: no urkel_tx_t yet, init_root zeroed. inserted holds the
\* pending inserts (last write wins), removed the keys whose last pending
\* edit is a remove, pristine tells that nothing but inserts and removes
\* happened since the transaction was opened
ClosedTx == [open |-> FALSE, init_root |-> ZeroHash,
             tx |-> [root |-> NodeNull, init |-> NodeNull],
             inserted |-> {}, removed |-> {}, pristine |-> TRUE]

Idle == [op |-> "idle", api |-> "", key |-> ZeroData, out |-> JsReturn(JsUndefined),
         inserted |-> {}, removed |-> {}, pristine |-> TRUE, root |-> ZeroHash,
         tx |-> ClosedTx.tx, bad |-> FALSE, len |-> 0, badentry |-> FALSE]

\* a call and its result, with the pending edits the call found
Obs(op, api, key, out) ==
  [op |-> op, api |-> api, key |-> key, out |-> out,
   inserted |-> dtx.inserted, removed |-> dtx.removed,
   pristine |-> dtx.pristine, root |-> ZeroHash,
   tx |-> ClosedTx.tx, bad |-> FALSE, len |-> 0, badentry |-> FALSE]

DataStart ==
  /\ dtree = EmptyTree
  /\ dtx = ClosedTx
  /\ dsnap = <<>>
  /\ dcomp = NoStore
  /\ dobs = Idle

\* transaction.c:430 nurkel_tx_open with its exec and complete: root is a
\* hash, or <<"current">> when the call has no root argument
DTxOpen ==
  \E root \in {<<"current">>, UnknownRoot}
              \cup {dtree.roots[i].hash : i \in 1..Len(dtree.roots)} :
    LET init_root == IF root = <<"current">> THEN urkel_root(dtree) ELSE root
        e == nurkel_tx_open_exec(dtree, init_root)
    IN /\ dobs.op = "idle"
       /\ ~dtx.open
       /\ dtx' = IF e.worker.success
                 THEN [ClosedTx EXCEPT !.open = TRUE, !.init_root = init_root,
                                       !.tx = e.tx]
                 ELSE ClosedTx
       /\ dobs' = IF e.worker.success THEN dobs
                  ELSE Obs("tx_open", "tx_open", ZeroData, JsReject(e.worker.err_res))
       /\ UNCHANGED <<dcomp, dtree, dsnap>>
       /\ UNCHANGED nonDataVars

\* transaction.c:497 nurkel_tx_close
DTxClose ==
  /\ dobs.op = "idle"
  /\ dtx.open
  /\ dtx' = ClosedTx
  /\ UNCHANGED <<dcomp, dtree, dsnap, dobs>>
  /\ UNCHANGED nonDataVars

\* transaction.c:921 nurkel_tx_insert with its exec and complete
DTxInsert ==
  \E kv \in DInserts :
    LET e == nurkel_tx_insert_exec(dtree, dtx.tx, kv[1], kv[2])
    IN /\ dobs.op = "idle"
       /\ dtx.open
       /\ nurkel_tx_insert_complete(e.worker).kind = "resolve"
       /\ dtx' = [dtx EXCEPT !.tx = e.tx,
                             !.inserted = {p \in @ : p[1] # kv[1]} \cup {kv},
                             !.removed = @ \ {kv[1]}]
       /\ UNCHANGED <<dcomp, dtree, dsnap, dobs>>
       /\ UNCHANGED nonDataVars

\* transaction.c:1031 nurkel_tx_remove with its exec and complete; the
\* remove of a key the transaction does not hold rejects
DTxRemove ==
  \E key \in DKeys :
    LET e == nurkel_tx_remove_exec(dtree, dtx.tx, key)
        out == nurkel_tx_remove_complete(e.worker)
    IN /\ dobs.op = "idle"
       /\ dtx.open
       /\ dtx' = [dtx EXCEPT !.tx = e.tx,
                             !.inserted = IF e.worker.success
                                          THEN {p \in @ : p[1] # key} ELSE @,
                             !.removed = IF e.worker.success THEN @ \cup {key} ELSE @]
       /\ dobs' = IF out.kind = "resolve" THEN dobs
                  ELSE Obs("tx_remove", "tx_remove", key, out)
       /\ UNCHANGED <<dcomp, dtree, dsnap>>
       /\ UNCHANGED nonDataVars

\* what every key reads in a transaction opened at the given root
ViewAt(tree, root) ==
  [k \in DKeys |-> nurkel_tx_get_sync(tree, nurkel_tx_open_exec(tree, root).tx, k)]

\* transaction.c:1188 nurkel_tx_commit_sync, 1252 nurkel_tx_commit with its
\* exec and complete
DTxCommit ==
  \E api \in {"tx_commit_sync", "tx_commit"} :
    LET s == nurkel_tx_commit_sync(dtree, dtx.tx)
        e == nurkel_tx_commit_exec(dtree, dtx.tx)
        tree2 == IF api = "tx_commit_sync" THEN s.tree ELSE e.tree
        tx2 == IF api = "tx_commit_sync" THEN s.tx ELSE e.tx
        out == IF api = "tx_commit_sync" THEN s.out
               ELSE nurkel_tx_commit_complete(e.worker)
        done == out.kind \in {"return", "resolve"}
    IN /\ dobs.op = "idle"
       /\ dtx.open
       /\ Len(dtree.roots) < MaxCommits
       /\ dtree' = tree2
       /\ dtx' = [dtx EXCEPT !.tx = tx2,
                             !.inserted = IF done THEN {} ELSE @,
                             !.removed = IF done THEN {} ELSE @,
                             !.pristine = IF done THEN FALSE ELSE @]
       /\ dsnap' = IF done
                   THEN Append(dsnap, [root |-> urkel_root(tree2),
                                       view |-> ViewAt(tree2, urkel_root(tree2))])
                   ELSE dsnap
       /\ dobs' = Obs("tx_commit", api, ZeroData, out)
       /\ UNCHANGED dcomp
       /\ UNCHANGED nonDataVars

\* transaction.c:1286 nurkel_tx_clear_sync
DTxClear ==
  LET s == nurkel_tx_clear_sync(dtx.tx)
  IN /\ dobs.op = "idle"
     /\ dtx.open
     /\ dtx' = [dtx EXCEPT !.tx = s.tx, !.inserted = {}, !.removed = {}]
     /\ dobs' = Obs("tx_clear", "tx_clear_sync", ZeroData, s.out)
     /\ UNCHANGED <<dcomp, dtree, dsnap>>
     /\ UNCHANGED nonDataVars

\* the lookups of the binding: tree.c 675-912, transaction.c 606-850 and
\* the get of nurkel.c 1569-1637
LookupApis == {"tree_get_sync", "tree_get", "tree_has_sync", "tree_has",
               "tx_get_sync", "tx_get", "tx_has_sync", "tx_has",
               "get_sync", "get"}

Lookup(api, tree, tx, key) ==
  CASE api = "tree_get_sync" -> nurkel_tree_get_sync(tree, key)
    [] api = "tree_get" -> nurkel_tree_get_complete(nurkel_tree_get_exec(tree, key))
    [] api = "tree_has_sync" -> nurkel_tree_has_sync(tree, key)
    [] api = "tree_has" -> nurkel_tree_has_complete(nurkel_tree_has_exec(tree, key))
    [] api = "tx_get_sync" -> nurkel_tx_get_sync(tree, tx, key)
    [] api = "tx_get" -> nurkel_tx_get_complete(nurkel_tx_get_exec(tree, tx, key))
    [] api = "tx_has_sync" -> nurkel_tx_has_sync(tree, tx, key)
    [] api = "tx_has" -> nurkel_tx_has_complete(nurkel_tx_has_exec(tree, tx, key))
    [] api = "get_sync" -> nurkel_get_sync(tree, key)
    [] api = "get" -> nurkel_get_complete(nurkel_get_exec(tree, key))

\* whether the key is present where the lookup looks
Present(api, tree, tx, key) ==
  IF api \in {"tx_get_sync", "tx_get", "tx_has_sync", "tx_has"}
  THEN urkel_tx_get(tree, tx, key).ok = 1
  ELSE urkel_get(tree, key).ok = 1

DLookup ==
  \E api \in LookupApis, key \in DKeys :
    /\ dobs.op = "idle"
    /\ api \in {"tx_get_sync", "tx_get", "tx_has_sync", "tx_has"} => dtx.open
    /\ dobs' = Obs("lookup", api, key, Lookup(api, dtree, dtx.tx, key))
    /\ UNCHANGED <<dcomp, dtree, dtx, dsnap>>
    /\ UNCHANGED nonDataVars

\* tree.c:1011 nurkel_tree_prove followed by tree.c:1240 nurkel_verify
\* against the hash of the root of the tree; proofs are taken between
\* transactions
DProveVerify ==
  \E key \in DKeys :
    LET p == nurkel_tree_prove_complete(nurkel_tree_prove_exec(dtree, key))
        v == nurkel_verify_complete(
               nurkel_verify_exec(urkel_root(dtree), key, p.val[2]))
    IN /\ dobs.op = "idle"
       /\ ~dtx.open
       /\ dobs' = Obs("prove_verify", "tree_prove", key, v)
       /\ UNCHANGED <<dcomp, dtree, dtx, dsnap>>
       /\ UNCHANGED nonDataVars

\* tree.c:1011 nurkel_tree_prove, or transaction.c:1072 nurkel_tx_prove_sync
\* when a transaction is open, followed by tree.c:1120 nurkel_verify_sync
\* against the hash of another root: the empty tree's, a committed one or
\* one no commit returned
DProveVerifyOther ==
  \E key \in DKeys,
     root1 \in {ZeroHash, UnknownRoot}
               \cup {dtree.roots[i].hash : i \in 1..Len(dtree.roots)} :
    LET p == IF dtx.open THEN nurkel_tx_prove_sync(dtree, dtx.tx, key)
             ELSE nurkel_tree_prove_complete(nurkel_tree_prove_exec(dtree, key))
        root2 == IF dtx.open THEN urkel_tx_root(dtree, dtx.tx)
                 ELSE urkel_root(dtree)
        v == nurkel_verify_sync(root1, key, p.val[2])
    IN /\ dobs.op = "idle"
       /\ root1 # root2
       /\ dobs' = [Obs("prove_verify_other",
                       IF dtx.open THEN "tx_prove_sync" ELSE "tree_prove",
                       key, v) EXCEPT !.root = root1]
       /\ UNCHANGED <<dcomp, dtree, dtx, dsnap>>
       /\ UNCHANGED nonDataVars

\* tree.c:1509 nurkel_compact_sync, 1588 nurkel_compact with its exec and
\* complete, between transactions: root is a hash, or JsNull when the call
\* names no root
DCompact ==
  \E api \in {"compact_sync", "compact"},
     root \in {JsNull, UnknownRoot, ZeroHash}
              \cup {dtree.roots[i].hash : i \in 1..Len(dtree.roots)} :
    LET s == nurkel_compact_sync(dtree, root)
        e == nurkel_compact_exec(dtree, root)
    IN /\ dobs.op = "idle"
       /\ ~dtx.open
       /\ dcomp' = IF api = "compact_sync" THEN s.dst ELSE e.dst
       /\ dobs' = [Obs("compact", api, ZeroData,
                       IF api = "compact_sync" THEN s.out
                       ELSE nurkel_compact_complete(e.worker))
                   EXCEPT !.root = IF root = JsNull THEN urkel_root(dtree)
                                   ELSE root]
       /\ UNCHANGED <<dtree, dtx, dsnap>>
       /\ UNCHANGED nonDataVars

\* the store at the destination is opened and a key is read from it:
\* tree.c:675 nurkel_tree_get_sync
DCompactGet ==
  \E key \in DKeys :
    /\ dobs.op = "compact"
    /\ dcomp.exists
    /\ dobs' = [Obs("compact_get", "tree_get_sync", key,
                    nurkel_tree_get_sync(dcomp.tree, key))
                EXCEPT !.root = dobs.root]
    /\ UNCHANGED <<dcomp, dtree, dtx, dsnap>>
    /\ UNCHANGED nonDataVars

\* the result is taken and a store written by compact is removed; the next
\* call can be made
DReturn ==
  /\ dobs.op # "idle"
  /\ dobs' = Idle
  /\ dcomp' = NoStore
  /\ UNCHANGED <<dtree, dtx, dsnap>>
  /\ UNCHANGED nonDataVars

(***************************************************************************)
(* Handles and async work (Spec): one tree, one transaction handle and one *)
(* iterator handle. A method runs on the main thread; the work it queues   *)
(* is executed on the thread pool and completed on the main thread.        *)
(***************************************************************************)
\* async works alive at a time, the close workers not counted
MaxWorks == 2
\* commits queued on the transaction
MaxQueuedCommits == 1
\* the cache_max_size given to iter_init
CacheMaxSize == 1
\* the cache_max_size given to iter_init where the batches are looked at
WideCacheMaxSize == 3

LKeyValues == {<<DKeyA, <<1>>>>, <<DKeyC, <<2, 2>>>>}

\* a free slot of the works
NoWork == [kind |-> "none", phase |-> "none", key |-> ZeroData, value |-> <<>>,
           deferred |-> FALSE, success |-> FALSE, err_res |-> "URKEL_OK",
           out |-> <<>>, raced |-> FALSE, before |-> EmptyTree, args |-> <<>>]

\* WORKER_INIT and napi_create_async_work: the work exists, it is not queued
NewWork(kind, deferred) ==
  [NoWork EXCEPT !.kind = kind, !.phase = "created", !.deferred = deferred]

\* tree.c:112 nurkel_ntree_init, in tree_init. Besides the fields of
\* nurkel_tree_t: alloc tells that the struct is allocated and not freed,
\* live that ntree->tree is an open urkel_t, ref is the count of the
\* reference ntree->ref, gc tells that the finalizer of the handle ran (the
\* handle is out of reach of the callers), closers counts the close workers
\* allocated for the handle. tree is the store in the directory of the tree
InitTree == [tree |-> EmptyTree, state |-> "closed", workers |-> 0,
             close_worker |-> 0, must_close_txs |-> FALSE, must_cleanup |-> FALSE,
             tx_list |-> <<>>, commits |-> 0,
             alloc |-> TRUE, live |-> FALSE, ref |-> 0, gc |-> FALSE, closers |-> 0]

\* the tree after tree_open, with one transaction handle made by tx_init
OpenTree == [InitTree EXCEPT !.state = "open", !.live = TRUE, !.ref = 1]

\* transaction.c:97 nurkel_ntx_init, in tx_init
InitTx == [state |-> "closed", workers |-> 0, close_worker |-> 0,
           must_close_iters |-> FALSE, must_cleanup |-> FALSE,
           tx |-> [root |-> NodeNull, init |-> NodeNull], tx_live |-> FALSE,
           init_root |-> ZeroHash, entry |-> FALSE,
           alloc |-> TRUE, ref |-> 0, gc |-> FALSE, closers |-> 0]

\* no transaction handle: none was made yet
NoTx == [InitTx EXCEPT !.alloc = FALSE]

\* transaction.c:1801 nurkel_niter_init; alloc is false until iter_init
\* and after the free
InitIter == [alloc |-> FALSE, state |-> "closed", close_worker |-> 0, nexting |-> FALSE,
             must_cleanup |-> FALSE, entry |-> FALSE, iter |-> <<>>,
             iter_live |-> FALSE, cache_max_size |-> 1, cache_size |-> 0,
             buffer |-> <<>>, view |-> <<>>, view_keys |-> {}, seen |-> <<>>,
             gc |-> FALSE, closers |-> 0]

\* util.c:252 nurkel_dlist_insert: the entry is put at the head
nurkel_dlist_insert(list, item) == <<item>> \o list

\* util.c:224 nurkel_dlist_remove of the first entry that holds the item
nurkel_dlist_remove(list, item) ==
  LET i == CHOOSE k \in 1..Len(list) :
             list[k] = item /\ \A j \in 1..(k - 1) : list[j] # item
  IN SubSeq(list, 1, i - 1) \o SubSeq(list, i + 1, Len(list))

\* util.h CHECK(expr): the process aborts when expr is false; fault names
\* the failed expression, and nothing runs after it
CHECK(S, expr, name) ==
  IF S.fault = "none" /\ ~expr THEN [S EXCEPT !.fault = name] ELSE S

\* a state check that looks at the state only, not at the close worker
nurkel_ready_state(h) ==
  IF h.state = "closing" THEN "closing"
  ELSE IF h.state = "closed" THEN "closed"
  ELSE IF h.state = "opening" THEN "opening"
  ELSE "ok"

\* the state check of the handles: a handle with a close queued or running
\* is closing
nurkel_ready(h) ==
  IF h.close_worker # 0 \/ h.state = "closing" THEN "closing"
  ELSE IF h.state = "closed" THEN "closed"
  ELSE IF h.state = "opening" THEN "opening"
  ELSE "ok"

\* NURKEL_TX_READY
NURKEL_TX_READY(S) ==
  IF nurkel_ready(S.ntree) # "ok" THEN nurkel_ready(S.ntree)
  ELSE nurkel_ready(S.ntx)

\* NURKEL_ITER_READY
NURKEL_ITER_READY(S) ==
  IF NURKEL_TX_READY(S) # "ok" THEN NURKEL_TX_READY(S)
  ELSE nurkel_ready(S.niter)

\* the slots of the works: the close worker of the transaction and the one
\* of the iterator have their own
TxCloseId == MaxWorks + 1
IterCloseId == MaxWorks + 2
TreeCloseId == MaxWorks + 3
WorkIds == 1..(MaxWorks + 3)

FreeIds(W) == {i \in 1..MaxWorks : W[i].kind = "none"}

FreeId(W) == CHOOSE i \in FreeIds(W) : \A j \in FreeIds(W) : i <= j

WorksOf(W, kind) == {i \in WorkIds : W[i].kind = kind}

\* the leaves under a node in bit-path order: left before right
RECURSIVE urkel_iter_leaves(_, _)
urkel_iter_leaves(st, node) ==
  LET n == urkel_store_read(st, node)
  IN IF n.t = "leaf" THEN <<<<n.key, n.value>>>>
     ELSE IF n.t = "internal"
     THEN urkel_iter_leaves(st, n.left) \o urkel_iter_leaves(st, n.right)
     ELSE <<>>

\* urkel_iter_create: the entries the iterator will hand out
urkel_iter_create(tree, tx) == urkel_iter_leaves(tree.store, tx.root)

\* transaction.c:1915 nurkel_iter_queue_close_worker: a request made with
\* a promise expects an open iterator without a close worker; a request
\* that finds a close worker is ignored
nurkel_iter_queue_close_worker(S, deferred) ==
  LET S1 == IF deferred
            THEN CHECK(CHECK(S, S.niter.close_worker = 0,
                             "CHECK(niter->close_worker == NULL)"),
                       S.niter.state = "open", "CHECK(niter->state == nurkel_state_open)")
            ELSE S
  IN IF S1.fault # "none" THEN S1
     ELSE IF S.niter.close_worker # 0 THEN S
     ELSE [S EXCEPT !.works[IterCloseId] = NewWork("iter_close", deferred),
                    !.niter.close_worker = IterCloseId,
                    !.niter.closers = @ + 1]

\* transaction.c:1820 nurkel_niter_free: the struct is freed and the
\* reference of the transaction is released. What is left in the model is
\* what the free found: state, nexting, entry, and whether the finalizer ran
nurkel_niter_free(S) ==
  LET S1 == CHECK(CHECK(S, S.niter.alloc, "free(niter) of a freed iterator"),
                  S.niter.state = "closed", "CHECK(niter->state == nurkel_state_closed)")
  IN IF S1.fault # "none" THEN S1
     ELSE [S EXCEPT !.niter = [InitIter EXCEPT !.state = S.niter.state,
                                               !.nexting = S.niter.nexting,
                                               !.entry = S.niter.entry,
                                               !.gc = S.niter.gc],
                    !.ntx.ref = @ - 1]

\* a nurkel_iter_final_check that does not look at nexting
nurkel_iter_final_check_eager(S) ==
  IF S.fault # "none" THEN S
  ELSE IF S.niter.close_worker # 0
  THEN IF S.niter.state # "open"
       THEN [S EXCEPT !.fault = "nurkel_iter_final_check: CHECK(niter->state == nurkel_state_open)"]
       ELSE [S EXCEPT !.niter.state = "closing", !.niter.nexting = TRUE,
                      !.works[S.niter.close_worker].phase = "queued"]
  ELSE IF S.niter.must_cleanup THEN nurkel_niter_free(S)
  ELSE S

\* transaction.c:1834 nurkel_iter_final_check
nurkel_iter_final_check(S) ==
  IF S.fault # "none" THEN S
  ELSE IF S.niter.nexting THEN S
  ELSE IF S.niter.close_worker # 0
  THEN IF S.niter.state # "open"
       THEN [S EXCEPT !.fault = "nurkel_iter_final_check: CHECK(niter->state == nurkel_state_open)"]
       ELSE [S EXCEPT !.niter.state = "closing", !.niter.nexting = TRUE,
                      !.works[S.niter.close_worker].phase = "queued"]
  ELSE IF S.niter.must_cleanup THEN nurkel_niter_free(S)
  ELSE S

\* transaction.c:116 nurkel_tx_free: the struct is freed and the reference
\* of the tree is released. What is left in the model is what the free
\* found: state, workers, entry, and whether the finalizer ran
nurkel_tx_free(S) ==
  LET S1 == CHECK(CHECK(CHECK(S, S.ntx.alloc, "free(ntx) of a freed transaction"),
                        S.ntx.state = "closed", "CHECK(ntx->state == nurkel_state_closed)"),
                  ~S.niter.entry, "CHECK(list->len == 0)")
  IN IF S1.fault # "none" THEN S1
     ELSE [S EXCEPT !.ntx = [NoTx EXCEPT !.state = S.ntx.state,
                                         !.workers = S.ntx.workers,
                                         !.entry = S.ntx.entry,
                                         !.gc = S.ntx.gc],
                    !.ntree.ref = @ - 1]

\* transaction.c:137 nurkel_tx_final_check, from the test of the iterator
\* list on
nurkel_tx_final_check_tail(S) ==
  IF S.fault # "none" THEN S
  ELSE IF S.niter.entry THEN S
  ELSE IF S.ntx.close_worker # 0
  THEN IF S.ntx.state # "open"
       THEN [S EXCEPT !.fault = "nurkel_tx_final_check: CHECK(ntx->state == nurkel_state_open)"]
       ELSE [S EXCEPT !.ntx.state = "closing", !.ntx.workers = @ + 1,
                      !.works[S.ntx.close_worker].phase = "queued"]
  ELSE IF S.ntx.must_cleanup THEN nurkel_tx_free(S)
  ELSE S

\* transaction.c:190 nurkel_tx_close_iters: it ends with a call of
\* nurkel_tx_final_check, which finds must_close_iters cleared
nurkel_tx_close_iters(S) ==
  LET closed == IF S.niter.entry
                THEN nurkel_iter_final_check(
                       nurkel_iter_queue_close_worker(S, FALSE))
                ELSE S
  IN nurkel_tx_final_check_tail([closed EXCEPT !.ntx.must_close_iters = FALSE])

\* a nurkel_tx_final_check that does not wait for the works in flight
nurkel_tx_final_check_eager(S) ==
  IF S.fault # "none" THEN S
  ELSE IF S.ntx.must_close_iters THEN nurkel_tx_close_iters(S)
  ELSE nurkel_tx_final_check_tail(S)

\* transaction.c:137 nurkel_tx_final_check
nurkel_tx_final_check(S) ==
  IF S.fault # "none" THEN S
  ELSE IF S.ntx.workers > 0 THEN S
  ELSE IF S.ntx.must_close_iters THEN nurkel_tx_close_iters(S)
  ELSE nurkel_tx_final_check_tail(S)

\* a nurkel_tx_queue_close_worker that makes a worker for every request
nurkel_tx_queue_close_worker_again(S, deferred) ==
  [S EXCEPT !.works[TxCloseId] = NewWork("tx_close", deferred),
            !.ntx.close_worker = TxCloseId,
            !.ntx.must_close_iters = TRUE,
            !.ntx.closers = @ + 1]

\* transaction.c:270 nurkel_tx_queue_close_worker: a request made with a
\* promise expects an open transaction without a close worker; a request
\* that finds a close worker is ignored
nurkel_tx_queue_close_worker(S, deferred) ==
  LET S1 == IF deferred
            THEN CHECK(CHECK(S, S.ntx.close_worker = 0,
                             "CHECK(ntx->close_worker == NULL)"),
                       S.ntx.state = "open", "CHECK(ntx->state == nurkel_state_open)")
            ELSE S
  IN IF S1.fault # "none" THEN S1
     ELSE IF S.ntx.close_worker # 0 THEN S
     ELSE [S EXCEPT !.works[TxCloseId] = NewWork("tx_close", deferred),
                    !.ntx.close_worker = TxCloseId,
                    !.ntx.must_close_iters = TRUE,
                    !.ntx.closers = @ + 1]

\* tree.c:129 nurkel_tree_free
nurkel_tree_free(S) ==
  LET S1 == CHECK(CHECK(CHECK(S, S.ntree.alloc, "free(ntree) of a freed tree"),
                        S.ntree.state = "closed",
                        "CHECK(ntree->state == nurkel_state_closed)"),
                  Len(S.ntree.tx_list) = 0, "CHECK(list->len == 0)")
  IN IF S1.fault # "none" THEN S1
     ELSE [S EXCEPT !.ntree.alloc = FALSE, !.ntree.must_cleanup = FALSE]

\* tree.c:143 nurkel_final_check and tree.c:187 nurkel_close_txs, which
\* ends with a call of nurkel_final_check
RECURSIVE nurkel_final_check(_)
nurkel_close_txs(S) ==
  LET closed == IF Len(S.ntree.tx_list) > 0
                THEN nurkel_tx_final_check(nurkel_tx_queue_close_worker(S, FALSE))
                ELSE S
  IN nurkel_final_check([closed EXCEPT !.ntree.must_close_txs = FALSE])

nurkel_final_check(S) ==
  IF S.fault # "none" THEN S
  ELSE IF S.ntree.workers > 0 THEN S
  ELSE IF S.ntree.must_close_txs THEN nurkel_close_txs(S)
  ELSE IF Len(S.ntree.tx_list) > 0 THEN S
  ELSE IF S.ntree.close_worker # 0
  THEN IF S.ntree.state # "open"
       THEN [S EXCEPT !.fault = "nurkel_final_check: CHECK(ntree->state == nurkel_state_open)"]
       ELSE [S EXCEPT !.ntree.state = "closing", !.ntree.workers = @ + 1,
                      !.works[S.ntree.close_worker].phase = "queued"]
  ELSE IF S.ntree.must_cleanup THEN nurkel_tree_free(S)
  ELSE S

\* tree.c:243 nurkel_queue_close_worker: a request made with a promise
\* expects an open tree without a close worker; a request that finds a
\* close worker is ignored
nurkel_queue_close_worker(S, deferred) ==
  LET S1 == IF deferred
            THEN CHECK(CHECK(S, S.ntree.close_worker = 0,
                             "CHECK(ntree->close_worker == NULL)"),
                       S.ntree.state = "open", "CHECK(ntree->state == nurkel_state_open)")
            ELSE S
  IN IF S1.fault # "none" THEN S1
     ELSE IF S.ntree.close_worker # 0 THEN S
     ELSE [S EXCEPT !.works[TreeCloseId] = NewWork("tree_close", deferred),
                    !.ntree.close_worker = TreeCloseId,
                    !.ntree.must_close_txs = TRUE,
                    !.ntree.closers = @ + 1]

\* tree.c:299 nurkel_ntree_destroy, the finalizer of the tree handle
nurkel_ntree_destroy(S) ==
  LET S1 == IF S.ntree.state # "closed" /\ S.ntree.close_worker = 0
            THEN nurkel_queue_close_worker(S, FALSE) ELSE S
  IN nurkel_final_check([S1 EXCEPT !.ntree.must_cleanup = TRUE, !.ntree.gc = TRUE])

\* a finalizer that frees the transaction at once
nurkel_ntx_destroy_now(S) ==
  nurkel_tx_free([S EXCEPT !.ntx.must_cleanup = TRUE, !.ntx.gc = TRUE])

\* transaction.c:209 nurkel_ntx_destroy, the finalizer of the transaction
\* handle
nurkel_ntx_destroy(S) ==
  LET S1 == IF S.ntx.state # "closed" /\ S.ntx.close_worker = 0
            THEN nurkel_tx_queue_close_worker(S, FALSE) ELSE S
  IN nurkel_tx_final_check([S1 EXCEPT !.ntx.must_cleanup = TRUE, !.ntx.gc = TRUE])

\* transaction.c:1854 nurkel_niter_destroy, the finalizer of the iterator
\* handle
nurkel_niter_destroy(S) ==
  LET S1 == IF S.niter.state # "closed"
            THEN nurkel_iter_queue_close_worker(S, FALSE) ELSE S
  IN nurkel_iter_final_check([S1 EXCEPT !.niter.must_cleanup = TRUE, !.niter.gc = TRUE])

\* the handles and the works as one value; fault is set by a failed CHECK
LifeState == [ntree |-> ntree, ntx |-> ntx, niter |-> niter, works |-> works,
              fault |-> "none"]

SetLifeState(S) ==
  /\ ntree' = S.ntree
  /\ ntx' = S.ntx
  /\ niter' = S.niter
  /\ works' = S.works

\* the step made last: for a next, whether an earlier next was in flight
\* and then the iterator and the works the call found; for a completed
\* commit, the tree as its exec found it
LIdle == [op |-> "none", out |-> JsReturn(JsUndefined), busy |-> FALSE,
          iter |-> InitIter, works |-> [i \in WorkIds |-> NoWork],
          before |-> EmptyTree, batch |-> <<>>, max |-> 0,
          fault |-> "none", args |-> <<>>]

\* the process has not aborted
Running == lobs.fault = "none"

\* the handle can be handed to a method: it is allocated and its finalizer
\* has not run
Reachable(h) == h.alloc /\ ~h.gc

LifeStart ==
  /\ ntree = OpenTree
  /\ ntx = InitTx
  /\ niter = InitIter
  /\ works = [i \in WorkIds |-> NoWork]
  /\ lobs = LIdle

\* the commit works whose exec is running on the thread pool
RunningCommits(W) == {i \in WorkIds : W[i].kind = "tx_commit" /\ W[i].phase = "running"}

\* a call of liburkel on the transaction while the commits of the set are
\* running on it: their outcome is not defined any more
MarkRaced(W, ids) == [i \in WorkIds |-> IF i \in ids THEN [W[i] EXCEPT !.raced = TRUE]
                                        ELSE W[i]]

\* an urkel_iter_next loop that fills the buffer and leaves the iterator
\* where it was
IterFill_stay(it) ==
  LET n == Min(it.cache_max_size, Len(it.iter))
  IN [it EXCEPT !.cache_size = n,
                !.buffer = SubSeq(it.iter, 1, n)]

\* an urkel_iter_next loop that ends after its first entry
IterFill_one(it) ==
  LET n == Min(1, Len(it.iter))
  IN [it EXCEPT !.cache_size = n,
                !.buffer = SubSeq(it.iter, 1, n),
                !.iter = SubSeq(it.iter, n + 1, Len(it.iter))]

\* urkel_iter_next called until the cache is full or the iterator ends
IterFill(it) ==
  LET n == Min(it.cache_max_size, Len(it.iter))
  IN [it EXCEPT !.cache_size = n,
                !.buffer = SubSeq(it.iter, 1, n),
                !.iter = SubSeq(it.iter, n + 1, Len(it.iter))]

\* the entries of the buffer handed to the caller as one batch; seen keeps
\* every batch handed out since iter_init
IterBatch(it) == SubSeq(it.buffer, 1, it.cache_size)

IterReturn(it) == [it EXCEPT !.seen = @ \o IterBatch(it)]

\* iter_next without the test of nexting
nurkel_iter_next_unguarded(S) ==
  IF NURKEL_ITER_READY(S) # "ok"
  THEN [S |-> S, out |-> JsThrow(NURKEL_ITER_READY(S))]
  ELSE [S |-> [S EXCEPT !.works[FreeId(S.works)] =
                          [NewWork("iter_next", TRUE) EXCEPT !.phase = "queued"],
                        !.niter.nexting = TRUE],
        out |-> JsReturn(<<"promise">>)]

\* transaction.c:2181 nurkel_iter_next
nurkel_iter_next(S) ==
  IF NURKEL_ITER_READY(S) # "ok"
  THEN [S |-> S, out |-> JsThrow(NURKEL_ITER_READY(S))]
  ELSE IF S.niter.nexting
  THEN [S |-> S, out |-> JsThrow("Already nexting.")]
  ELSE [S |-> [S EXCEPT !.works[FreeId(S.works)] =
                          [NewWork("iter_next", TRUE) EXCEPT !.phase = "queued"],
                        !.niter.nexting = TRUE],
        out |-> JsReturn(<<"promise">>)]

\* transaction.c:2038 nurkel_iter_next_sync
nurkel_iter_next_sync(S) ==
  IF NURKEL_ITER_READY(S) # "ok"
  THEN [S |-> S, out |-> JsThrow(NURKEL_ITER_READY(S))]
  ELSE IF S.niter.nexting
  THEN [S |-> S, out |-> JsThrow("Already nexting.")]
  ELSE [S |-> [S EXCEPT !.niter = IterReturn(IterFill(@))],
        out |-> JsReturn(<<"array", IterBatch(IterFill(S.niter))>>)]

\* a next of the iterator was queued and its complete callback has not run
NextInFlight == WorksOf(works, "iter_next") # {}

\* transaction.c:430 nurkel_tx_open, called without a root or with the
\* hash of a root the store does not hold
TxOpen ==
  \E root \in {<<"current">>, UnknownRoot} :
    LET S == LifeState
        id == FreeId(works)
    IN /\ Running
       /\ Reachable(ntx)
       /\ ntx.state = "closed"
       /\ ntx.close_worker = 0
       /\ nurkel_ready(ntree) = "ok"
       /\ FreeIds(works) # {}
       /\ SetLifeState([S EXCEPT
            !.ntx.init_root = IF root = <<"current">> THEN urkel_root(ntree.tree)
                              ELSE root,
            !.works[id] = [NewWork("tx_open", TRUE) EXCEPT !.phase = "queued"],
            !.ntree.tx_list = nurkel_dlist_insert(@, "tx"),
            !.ntx.entry = TRUE,
            !.ntx.workers = @ + 1,
            !.ntx.state = "opening"])
       /\ lobs' = LIdle
       /\ UNCHANGED nonLifeVars

\* transaction.c:497 nurkel_tx_close
TxClose ==
  LET S2 == nurkel_tx_final_check(nurkel_tx_queue_close_worker(LifeState, TRUE))
  IN /\ Running
     /\ Reachable(ntx)
     /\ NURKEL_TX_READY(LifeState) = "ok"
     /\ SetLifeState(S2)
     /\ lobs' = [LIdle EXCEPT !.fault = S2.fault]
     /\ UNCHANGED nonLifeVars

\* a tx_insert that tests the state of the transaction and not its close
\* worker nor the tree
TxInsertOnOpen ==
  \E kv \in LKeyValues :
    LET S == LifeState
        id == FreeId(works)
    IN /\ Running
       /\ Reachable(ntx)
       /\ ntx.state = "open"
       /\ FreeIds(works) # {}
       /\ SetLifeState([S EXCEPT
            !.works[id] = [NewWork("tx_insert", TRUE) EXCEPT
                             !.phase = "queued", !.key = kv[1], !.value = kv[2]],
            !.ntx.workers = @ + 1])
       /\ lobs' = LIdle
       /\ UNCHANGED nonLifeVars

\* transaction.c:921 nurkel_tx_insert
TxInsert ==
  \E kv \in LKeyValues :
    LET S == LifeState
        id == FreeId(works)
    IN /\ Running
       /\ Reachable(ntx)
       /\ NURKEL_TX_READY(S) = "ok"
       /\ FreeIds(works) # {}
       /\ SetLifeState([S EXCEPT
            !.works[id] = [NewWork("tx_insert", TRUE) EXCEPT
                             !.phase = "queued", !.key = kv[1], !.value = kv[2]],
            !.ntx.workers = @ + 1])
       /\ lobs' = LIdle
       /\ UNCHANGED nonLifeVars

\* transaction.c:852 nurkel_tx_insert_sync. The call runs on the main thread
\* while a commit of the same transaction may be running on the thread
\* pool: then what the transaction holds afterwards is not defined
TxInsertSync ==
  \E kv \in LKeyValues, applied \in BOOLEAN :
    LET S == LifeState
        racing == RunningCommits(works)
        res == nurkel_tx_insert_sync(ntree.tree, ntx.tx, kv[1], kv[2])
    IN /\ Running
       /\ Reachable(ntx)
       /\ NURKEL_TX_READY(S) = "ok"
       /\ racing = {} => applied
       /\ SetLifeState([S EXCEPT
            !.ntx.tx = IF applied THEN res.tx ELSE @,
            !.works = MarkRaced(@, racing)])
       /\ lobs' = LIdle
       /\ UNCHANGED nonLifeVars

\* transaction.c:1252 nurkel_tx_commit
TxCommit ==
  LET S == LifeState
      id == FreeId(works)
  IN /\ Running
     /\ Reachable(ntx)
     /\ NURKEL_TX_READY(S) = "ok"
     /\ FreeIds(works) # {}
     /\ ntree.commits < MaxQueuedCommits
     /\ SetLifeState([S EXCEPT
          !.works[id] = [NewWork("tx_commit", TRUE) EXCEPT !.phase = "queued"],
          !.ntx.workers = @ + 1,
          !.ntree.commits = @ + 1])
     /\ lobs' = LIdle
     /\ UNCHANGED nonLifeVars

\* transaction.c:1970 nurkel_iter_init. The model keeps one iterator: a
\* closed iterator whose finalizer has not run gives way to the new one, as
\* when it is finalized and freed just before, and the reference it held on
\* the transaction passes to the new one
IterInitOf(sizes) ==
  \E size \in sizes :
    /\ Running
    /\ Reachable(ntx)
    /\ NURKEL_TX_READY(LifeState) = "ok"
    /\ niter.state = "closed"
    /\ ~niter.entry
    /\ ~niter.must_cleanup
    /\ WorksOf(works, "iter_next") = {}
    /\ niter' = [InitIter EXCEPT !.state = "open", !.alloc = TRUE,
                                 !.cache_max_size = size,
                                 !.iter = urkel_iter_create(ntree.tree, ntx.tx),
                                 !.view = urkel_iter_create(ntree.tree, ntx.tx),
                                 !.view_keys =
                                   {kv[1] : kv \in {x \in LKeyValues :
                                      urkel_tx_get(ntree.tree, ntx.tx, x[1]).ok = 1}},
                                 !.iter_live = TRUE,
                                 !.entry = TRUE]
    /\ ntx' = [ntx EXCEPT !.ref = IF niter.alloc THEN @ ELSE @ + 1]
    /\ lobs' = LIdle
    /\ UNCHANGED <<ntree, works>>
    /\ UNCHANGED nonLifeVars

IterInit == IterInitOf(1..CacheMaxSize)

\* transaction.c:2181 nurkel_iter_next
IterNext ==
  LET r == nurkel_iter_next(LifeState)
  IN /\ Running
     /\ Reachable(niter)
     /\ FreeIds(works) # {}
     /\ SetLifeState(r.S)
     /\ lobs' = [LIdle EXCEPT !.op = "iter_next", !.out = r.out,
                              !.busy = NextInFlight,
                              !.iter = IF NextInFlight THEN niter ELSE @,
                              !.works = IF NextInFlight THEN works ELSE @]
     /\ UNCHANGED nonLifeVars

\* transaction.c:2038 nurkel_iter_next_sync
IterNextSync ==
  LET r == nurkel_iter_next_sync(LifeState)
  IN /\ Running
     /\ Reachable(niter)
     /\ SetLifeState(r.S)
     /\ lobs' = [LIdle EXCEPT !.op = "iter_next_sync", !.out = r.out,
                              !.busy = NextInFlight,
                              !.iter = IF NextInFlight THEN niter
                                       ELSE IF r.out.kind = "return" THEN r.S.niter
                                       ELSE @,
                              !.works = IF NextInFlight THEN works ELSE @,
                              !.batch = IF r.out.kind = "return"
                                        THEN IterBatch(r.S.niter) ELSE @,
                              !.max = IF r.out.kind = "return"
                                      THEN niter.cache_max_size ELSE @]
     /\ UNCHANGED nonLifeVars

\* transaction.c:2018 nurkel_iter_close
IterClose ==
  LET S2 == nurkel_iter_final_check(nurkel_iter_queue_close_worker(LifeState, TRUE))
  IN /\ Running
     /\ Reachable(niter)
     /\ NURKEL_ITER_READY(LifeState) = "ok"
     /\ SetLifeState(S2)
     /\ lobs' = [LIdle EXCEPT !.fault = S2.fault]
     /\ UNCHANGED nonLifeVars

\* the thread pool starts the exec of a queued commit
ExecBegin ==
  \E i \in WorkIds :
    /\ Running
    /\ works[i].kind = "tx_commit"
    /\ works[i].phase = "queued"
    /\ works' = [MarkRaced(works, IF RunningCommits(works) # {}
                                  THEN RunningCommits(works) \cup {i} ELSE {})
                   EXCEPT ![i].phase = "running", ![i].before = ntree.tree]
    /\ lobs' = LIdle
    /\ UNCHANGED <<ntree, ntx, niter>>
    /\ UNCHANGED nonLifeVars

\* transaction.c:371 nurkel_tx_open_exec
ExecTxOpen(S, i) ==
  LET e == nurkel_tx_open_exec(S.ntree.tree, S.ntx.init_root)
  IN [S EXCEPT !.works[i].success = e.worker.success,
               !.works[i].err_res = e.worker.err_res,
               !.ntx.tx = IF e.worker.success THEN e.tx ELSE @,
               !.ntx.tx_live = IF e.worker.success THEN TRUE ELSE @]

\* transaction.c:226 nurkel_tx_close_worker_exec
ExecTxClose(S, i) ==
  [S EXCEPT !.works[i].success = TRUE,
            !.ntx.tx = InitTx.tx,
            !.ntx.tx_live = FALSE]

\* transaction.c:882 nurkel_tx_insert_exec; applied tells whether the insert
\* took effect when it ran while a commit was running
ExecTxInsert(S, i, applied) ==
  LET e == nurkel_tx_insert_exec(S.ntree.tree, S.ntx.tx,
                                 S.works[i].key, S.works[i].value)
      W == MarkRaced(S.works, RunningCommits(S.works))
  IN [S EXCEPT !.works = [W EXCEPT ![i].success = e.worker.success,
                                   ![i].err_res = e.worker.err_res],
               !.ntx.tx = IF applied THEN e.tx ELSE @]

\* transaction.c:1209 nurkel_tx_commit_exec. A commit that ran alone either
\* wrote everything or nothing; one that ran while the transaction was
\* changed or committed by another thread may also have appended nodes
\* without reaching the root record (torn)
ExecTxCommit(S, i, torn) ==
  LET e == nurkel_tx_commit_exec(S.ntree.tree, S.ntx.tx)
  IN IF torn
     THEN [S EXCEPT !.works[i].success = FALSE,
                    !.works[i].err_res = "URKEL_EBADWRITE",
                    !.ntree.tree.store = e.tree.store]
     ELSE [S EXCEPT !.works[i].success = e.worker.success,
                    !.works[i].err_res = e.worker.err_res,
                    !.works[i].out = e.worker.out_hash,
                    !.ntree.tree = e.tree,
                    !.ntx.tx = e.tx]

\* transaction.c:2096 nurkel_iter_next_exec
ExecIterNext(S, i) ==
  [S EXCEPT !.works[i].success = TRUE, !.niter = IterFill(@)]

\* transaction.c:1870 nurkel_iter_close_worker_exec
ExecIterClose(S, i) ==
  [S EXCEPT !.works[i].success = TRUE,
            !.niter.iter = <<>>,
            !.niter.iter_live = FALSE]

\* tree.c:356 nurkel_tree_open_exec: urkel_open opens the directory of the
\* tree, or fails
ExecTreeOpen(S, i, opened) ==
  IF opened
  THEN [S EXCEPT !.works[i].success = TRUE, !.ntree.live = TRUE]
  ELSE [S EXCEPT !.works[i].success = FALSE, !.works[i].err_res = "URKEL_EBADOPEN"]

\* tree.c:202 nurkel_close_worker_exec
ExecTreeClose(S, i) ==
  [S EXCEPT !.works[i].success = TRUE, !.ntree.live = FALSE]

\* tree.c:509 nurkel_tree_root_hash_exec
ExecTreeRootHash(S, i) ==
  [S EXCEPT !.works[i].success = TRUE, !.works[i].out = urkel_root(S.ntree.tree)]

\* tree.c:1177 nurkel_verify_exec: the worker holds root, key and proof,
\* and then out_exists and out_value
ExecVerify(S, i) ==
  LET a == S.works[i].args
      e == nurkel_verify_exec_len(a[1], a[2], a[3], a[4])
  IN [S EXCEPT !.works[i].success = e.success,
               !.works[i].err_res = e.err_res,
               !.works[i].out = <<e.out_exists, e.out_value>>]

\* what the exec of a work reads and writes is there: the struct of its
\* handle is allocated, and the liburkel objects it calls are open. The
\* result names what is wrong, or is "none"
ExecFault(S, kind) ==
  LET tree == IF ~S.ntree.alloc THEN "exec on a freed tree"
              ELSE IF ~S.ntree.live
              THEN IF kind = "tree_close" THEN "urkel_close of a closed tree"
                   ELSE "exec on a closed tree"
              ELSE "none"
      tx == IF ~S.ntx.alloc THEN "exec on a freed transaction"
            ELSE IF ~S.ntx.tx_live
            THEN IF kind = "tx_close"
                 THEN "urkel_tx_destroy of a destroyed transaction"
                 ELSE "exec on a destroyed transaction"
            ELSE tree
      iter == IF ~S.niter.alloc THEN "exec on a freed iterator"
              ELSE IF ~S.niter.iter_live
              THEN IF kind = "iter_close"
                   THEN "urkel_iter_destroy of a destroyed iterator"
                   ELSE "exec on a destroyed iterator"
              ELSE tx
  IN CASE kind = "tree_open" ->
            IF S.ntree.alloc THEN "none" ELSE "exec on a freed tree"
       [] kind \in {"tree_close", "tree_root_hash"} -> tree
       [] kind = "tx_open" ->
            IF S.ntx.alloc THEN tree ELSE "exec on a freed transaction"
       [] kind \in {"tx_close", "tx_insert", "tx_commit"} -> tx
       [] kind \in {"iter_next", "iter_close"} -> iter
       [] OTHER -> "none"

\* the thread pool runs the exec of a work to its end
Exec ==
  \E i \in WorkIds, choice \in BOOLEAN :
    LET S == LifeState
        w == works[i]
        racing == RunningCommits(works) # {}
        S2 == CASE w.kind = "tx_open" -> ExecTxOpen(S, i)
                [] w.kind = "tx_close" -> ExecTxClose(S, i)
                [] w.kind = "tx_insert" -> ExecTxInsert(S, i, choice)
                [] w.kind = "tx_commit" -> ExecTxCommit(S, i, choice)
                [] w.kind = "iter_next" -> ExecIterNext(S, i)
                [] w.kind = "iter_close" -> ExecIterClose(S, i)
                [] w.kind = "tree_open" -> ExecTreeOpen(S, i, choice)
                [] w.kind = "tree_close" -> ExecTreeClose(S, i)
                [] w.kind = "tree_root_hash" -> ExecTreeRootHash(S, i)
                [] w.kind = "verify" -> ExecVerify(S, i)
    IN /\ Running
       /\ w.kind # "none"
       /\ w.phase = IF w.kind = "tx_commit" THEN "running" ELSE "queued"
       /\ CASE w.kind = "tx_insert" -> (~racing => choice)
            [] w.kind = "tx_commit" -> (~w.raced => ~choice)
            [] w.kind = "tree_open" -> TRUE
            [] OTHER -> choice
       /\ IF ExecFault(S, w.kind) = "none"
          THEN /\ SetLifeState([S2 EXCEPT !.works[i].phase = "done"])
               /\ lobs' = [LIdle EXCEPT !.op = IF w.kind = "verify"
                                                THEN "verify_exec" ELSE @]
          ELSE /\ SetLifeState(S)
               /\ lobs' = [LIdle EXCEPT !.fault = ExecFault(S, w.kind)]
       /\ UNCHANGED nonLifeVars

\* what the promise of a work settles with
Settle(w, val) ==
  IF w.success THEN JsResolve(val) ELSE JsReject(w.err_res)

\* a nurkel_tx_open_complete that leaves a transaction whose open failed in
\* the list of the tree
CompleteTxOpenKeep(S, i) ==
  LET w == S.works[i]
  IN nurkel_tx_final_check(
       [S EXCEPT !.works[i] = NoWork,
                 !.ntx.workers = @ - 1,
                 !.ntx.state = IF w.success THEN "open" ELSE "closed"])

\* transaction.c:391 nurkel_tx_open_complete
CompleteTxOpen(S, i) ==
  LET w == S.works[i]
      S0 == IF w.success THEN S
            ELSE CHECK(S, S.ntx.entry, "CHECK(entry != NULL)")
      S1 == [S0 EXCEPT !.works[i] = NoWork,
                       !.ntx.workers = @ - 1,
                       !.ntx.state = IF w.success THEN "open" ELSE "closed",
                       !.ntx.entry = IF w.success THEN @ ELSE FALSE,
                       !.ntree.tx_list = IF w.success \/ S0.fault # "none" THEN @
                                         ELSE nurkel_dlist_remove(@, "tx")]
  IN nurkel_tx_final_check(S1)

\* transaction.c:237 nurkel_tx_close_worker_complete: after the final check
\* of the transaction comes the one of the tree
CompleteTxClose(S, i) ==
  LET S0 == CHECK(S, S.ntx.entry, "CHECK(entry != NULL)")
  IN nurkel_final_check(
       nurkel_tx_final_check(
         [S0 EXCEPT !.works[i] = NoWork,
                    !.ntx.close_worker = 0,
                    !.ntx.closers = @ - 1,
                    !.ntx.state = "closed",
                    !.ntx.workers = @ - 1,
                    !.ntx.entry = FALSE,
                    !.ntree.tx_list = IF S0.fault # "none" THEN @
                                      ELSE nurkel_dlist_remove(@, "tx")]))

\* a complete callback of tx_insert or tx_commit that leaves the count of
\* the workers as it is
CompleteTxWorkKeep(S, i) ==
  nurkel_tx_final_check([S EXCEPT !.works[i] = NoWork])

\* transaction.c:898 nurkel_tx_insert_complete, 1225 nurkel_tx_commit_complete
CompleteTxWork(S, i) ==
  nurkel_tx_final_check([S EXCEPT !.works[i] = NoWork, !.ntx.workers = @ - 1])

\* transaction.c:2126 nurkel_iter_next_complete
CompleteIterNext(S, i) ==
  nurkel_iter_final_check(
    [S EXCEPT !.works[i] = NoWork,
              !.niter = IF S.works[i].success
                        THEN [IterReturn(@) EXCEPT !.nexting = FALSE]
                        ELSE [@ EXCEPT !.nexting = FALSE]])

\* transaction.c:1881 nurkel_iter_close_worker_complete
CompleteIterClose(S, i) ==
  nurkel_tx_final_check(
    nurkel_iter_final_check(
      [CHECK(S, S.niter.entry, "CHECK(entry != NULL)")
         EXCEPT !.works[i] = NoWork,
                !.niter.close_worker = 0,
                !.niter.closers = @ - 1,
                !.niter.state = "closed",
                !.niter.nexting = FALSE,
                !.niter.entry = FALSE]))

\* tree.c:372 nurkel_tree_open_complete
CompleteTreeOpen(S, i) ==
  nurkel_final_check([S EXCEPT !.works[i] = NoWork,
                               !.ntree.workers = @ - 1,
                               !.ntree.state = IF S.works[i].success THEN "open"
                                               ELSE "closed"])

\* tree.c:213 nurkel_close_worker_complete
CompleteTreeClose(S, i) ==
  nurkel_final_check([S EXCEPT !.works[i] = NoWork,
                               !.ntree.close_worker = 0,
                               !.ntree.closers = @ - 1,
                               !.ntree.state = "closed",
                               !.ntree.workers = @ - 1])

\* tree.c:519 nurkel_tree_root_hash_complete
CompleteTreeWork(S, i) ==
  nurkel_final_check([S EXCEPT !.works[i] = NoWork, !.ntree.workers = @ - 1])

\* a nurkel_verify_complete that counts the work on the tree, as the
\* complete callbacks of the tree do
CompleteVerifyOnTree(S, i) ==
  [S EXCEPT !.works[i] = NoWork, !.ntree.workers = @ - 1]

\* tree.c:1197 nurkel_verify_complete: no handle is behind the worker
CompleteVerify(S, i) == [S EXCEPT !.works[i] = NoWork]

\* the struct the complete callback of a work reads and writes is allocated
CompleteTargets(S, kind) ==
  CASE kind \in {"tree_open", "tree_close", "tree_root_hash"} -> S.ntree.alloc
    [] kind \in {"tx_open", "tx_close", "tx_insert", "tx_commit"} ->
         S.ntx.alloc /\ S.ntree.alloc
    [] kind \in {"iter_next", "iter_close"} -> S.niter.alloc /\ S.ntx.alloc
    [] OTHER -> TRUE

\* the main thread runs the complete callback of a work whose exec ended
Complete ==
  \E i \in WorkIds :
    LET S == LifeState
        w == works[i]
        S2 == CASE w.kind = "tx_open" -> CompleteTxOpen(S, i)
                [] w.kind = "tx_close" -> CompleteTxClose(S, i)
                [] w.kind = "tx_insert" -> CompleteTxWork(S, i)
                [] w.kind = "tx_commit" -> CompleteTxWork(S, i)
                [] w.kind = "iter_next" -> CompleteIterNext(S, i)
                [] w.kind = "iter_close" -> CompleteIterClose(S, i)
                [] w.kind = "tree_open" -> CompleteTreeOpen(S, i)
                [] w.kind = "tree_close" -> CompleteTreeClose(S, i)
                [] w.kind = "tree_root_hash" -> CompleteTreeWork(S, i)
                [] w.kind = "verify" -> CompleteVerify(S, i)
        S3 == IF CompleteTargets(S, w.kind) THEN S2
              ELSE [S EXCEPT !.fault = "callback on a freed handle"]
    IN /\ Running
       /\ w.phase = "done"
       /\ SetLifeState(S3)
       /\ lobs' = IF w.kind = "tx_commit"
                  THEN [LIdle EXCEPT !.op = "tx_commit",
                                     !.out = Settle(w, JsBuffer(w.out)),
                                     !.before = w.before,
                                     !.fault = S3.fault]
                  ELSE IF w.kind = "iter_next"
                  THEN [LIdle EXCEPT !.op = "iter_next_complete",
                                     !.out = Settle(w, <<"array", IterBatch(niter)>>),
                                     !.batch = IterBatch(niter),
                                     !.max = niter.cache_max_size,
                                     !.iter = IterReturn(niter),
                                     !.fault = S3.fault]
                  ELSE IF w.kind = "verify"
                  THEN [LIdle EXCEPT !.op = "verify",
                                     !.out = nurkel_verify_complete(
                                               [Worker EXCEPT !.success = w.success,
                                                              !.err_res = w.err_res,
                                                              !.out_exists = w.out[1],
                                                              !.out_value = w.out[2]]),
                                     !.args = w.args]
                  ELSE [LIdle EXCEPT !.fault = S3.fault]
       /\ UNCHANGED nonLifeVars

InitLife == BitsStart /\ DataStart /\ LifeStart

Next ==
  \/ TxOpen
  \/ TxClose
  \/ TxInsert
  \/ TxInsertSync
  \/ TxCommit
  \/ IterInit
  \/ IterNext
  \/ IterNextSync
  \/ IterClose
  \/ ExecBegin
  \/ Exec
  \/ Complete

Spec == InitLife /\ [][Next]_vars

InitBits == BitsStart /\ DataStart /\ LifeStart

SpecBits == InitBits /\ [][NextBits]_vars

InitData == BitsStart /\ DataStart /\ LifeStart

NextData ==
  \/ DTxOpen
  \/ DTxClose
  \/ DTxInsert
  \/ DTxRemove
  \/ DTxCommit
  \/ DTxClear
  \/ DProveVerify
  \/ DProveVerifyOther
  \/ DCompact
  \/ DCompactGet
  \/ DReturn

SpecData == InitData /\ [][NextData]_vars

(***************************************************************************)
(* Lookups (SpecRead): one lookup on a tree that holds one commit and a    *)
(* transaction opened at its root with at most one pending edit.           *)
(***************************************************************************)
\* the inserts in the order they are made
DInsSeq == <<<<DKeyA, <<1>>>>, <<DKeyB, <<1>>>>, <<DKeyC, <<2, 2>>>>>>

\* transaction.c:852 nurkel_tx_insert_sync for the inserts of S, from the
\* i-th of DInsSeq on
RECURSIVE InsertAll(_, _, _, _)
InsertAll(tree, tx, S, i) ==
  IF i > Len(DInsSeq) THEN tx
  ELSE IF DInsSeq[i] \in S
  THEN InsertAll(tree,
                 nurkel_tx_insert_sync(tree, tx, DInsSeq[i][1], DInsSeq[i][2]).tx,
                 S, i + 1)
  ELSE InsertAll(tree, tx, S, i + 1)

\* the tree after one transaction inserted S and committed
ReadTree(S) ==
  LET tx == nurkel_tx_open_exec(EmptyTree, urkel_root(EmptyTree)).tx
  IN nurkel_tx_commit_sync(EmptyTree, InsertAll(EmptyTree, tx, S, 1)).tree

ReadEdits == {<<"none">>} \cup {<<"insert", kv>> : kv \in DInserts}
                         \cup {<<"remove", k>> : k \in DKeys}

\* a transaction opened at the root of the tree, with one edit or none
ReadTx(tree, edit) ==
  LET tx == nurkel_tx_open_exec(tree, urkel_root(tree)).tx
      ins == nurkel_tx_insert_sync(tree, tx, edit[2][1], edit[2][2])
      rem == nurkel_tx_remove_sync(tree, tx, edit[2])
      opened == [ClosedTx EXCEPT !.open = TRUE, !.init_root = urkel_root(tree),
                                 !.tx = tx]
  IN CASE edit[1] = "none" -> opened
       [] edit[1] = "insert" ->
            [opened EXCEPT !.tx = ins.tx, !.inserted = {edit[2]}]
       [] edit[1] = "remove" ->
            [opened EXCEPT !.tx = rem.tx,
                           !.removed = IF rem.out.kind = "return"
                                       THEN {edit[2]} ELSE {}]

InitRead ==
  /\ BitsStart
  /\ LifeStart
  /\ dsnap = <<>>
  /\ dcomp = NoStore
  /\ dobs = Idle
  /\ \E S \in SUBSET DInserts, edit \in ReadEdits :
       /\ dtree = ReadTree(S)
       /\ dtx = ReadTx(ReadTree(S), edit)

NextRead == DLookup \/ DReturn

SpecRead == InitRead /\ [][NextRead]_vars

(***************************************************************************)
(* Arguments of the mutations (SpecArgs): calls of insert and apply with   *)
(* keys and values of right and wrong lengths, on the transactions of      *)
(* SpecRead.                                                               *)
(***************************************************************************)
\* transaction.h:21
VTX_OP_INSERT == 1
\* transaction.h:22
VTX_OP_REMOVE == 2

\* transaction.c:1463 nurkel_tx_apply_sync, the loop from element i on: an
\* element is [op, key, value]; the call throws at the first element it
\* refuses, with the elements before it applied
RECURSIVE nurkel_tx_apply_sync_loop(_, _, _, _)
nurkel_tx_apply_sync_loop(tree, tx, ops, i) ==
  IF i > Len(ops) THEN [out |-> JsReturn(JsUndefined), tx |-> tx]
  ELSE LET op == ops[i]
           ins == urkel_tx_insert(tree, tx, op[2], op[3])
           rem == urkel_tx_remove(tree, tx, op[2])
       IN IF ~(Len(op[2]) = URKEL_HASH_SIZE)
          THEN [out |-> JsThrow("JS_ERR_ARG"), tx |-> tx]
          ELSE IF op[1] = VTX_OP_INSERT
          THEN IF ins.ok = 0 THEN [out |-> JsThrow(ins.errno), tx |-> tx]
               ELSE nurkel_tx_apply_sync_loop(tree, ins.tx, ops, i + 1)
          ELSE IF op[1] = VTX_OP_REMOVE
          THEN IF rem.ok = 0 THEN [out |-> JsThrow(rem.errno), tx |-> tx]
               ELSE nurkel_tx_apply_sync_loop(tree, rem.tx, ops, i + 1)
          ELSE [out |-> JsThrow("JS_ERR_INCORRECT_OP"), tx |-> tx]

\* transaction.c:1463 nurkel_tx_apply_sync
nurkel_tx_apply_sync(tree, tx, ops) ==
  IF Len(ops) = 0 THEN [out |-> JsThrow("JS_ERR_ARG"), tx |-> tx]
  ELSE nurkel_tx_apply_sync_loop(tree, tx, ops, 1)

\* transaction.c:1526 nurkel_tx_apply_exec, the loop from element i on
RECURSIVE nurkel_tx_apply_exec(_, _, _, _)
nurkel_tx_apply_exec(tree, tx, ops, i) ==
  IF i > Len(ops) THEN [worker |-> [Worker EXCEPT !.success = TRUE], tx |-> tx]
  ELSE LET op == ops[i]
           res == IF op[1] = VTX_OP_INSERT
                  THEN urkel_tx_insert(tree, tx, op[2], op[3])
                  ELSE urkel_tx_remove(tree, tx, op[2])
       IN IF res.ok = 0
          THEN [worker |-> [Worker EXCEPT !.success = FALSE, !.err_res = res.errno],
                tx |-> tx]
          ELSE nurkel_tx_apply_exec(tree, res.tx, ops, i + 1)

\* transaction.c:1560 nurkel_tx_apply_complete
nurkel_tx_apply_complete(worker) ==
  IF worker.success = FALSE THEN JsReject(worker.err_res)
  ELSE JsResolve(JsUndefined)

\* transaction.c:1596 nurkel_tx_apply: the method looks at every element
\* (length of the key, op) before it queues the work
nurkel_tx_apply(tree, tx, ops) ==
  LET e == nurkel_tx_apply_exec(tree, tx, ops, 1)
  IN IF Len(ops) = 0 THEN [out |-> JsThrow("JS_ERR_ARG"), tx |-> tx]
     ELSE IF \E i \in 1..Len(ops) :
               \/ Len(ops[i][2]) # URKEL_HASH_SIZE
               \/ ops[i][1] \notin {VTX_OP_INSERT, VTX_OP_REMOVE}
     THEN [out |-> JsThrow("JS_ERR_ARG"), tx |-> tx]
     ELSE [out |-> nurkel_tx_apply_complete(e.worker), tx |-> e.tx]

\* elements of a batch handed to apply
MaxBatch == 2

\* keys of 31, 32 and 33 bytes
ArgKeys == {SubSeq(DKeyB, 1, URKEL_HASH_SIZE - 1), DKeyB, Append(DKeyB, 0)}

\* values of 1, 1023 and 1024 bytes
ArgValues == {<<1>>, [j \in 1..URKEL_VALUE_SIZE |-> 7],
              [j \in 1..(URKEL_VALUE_SIZE + 1) |-> 7]}

ArgOps == {<<VTX_OP_INSERT, k, v>> : k \in ArgKeys, v \in ArgValues}
            \cup {<<VTX_OP_REMOVE, DKeyA, <<>>>>, <<3, DKeyA, <<>>>>}

ArgBatches == UNION {[1..n -> ArgOps] : n \in 1..MaxBatch}

\* a key that is not 32 bytes long, or a value of more than 1023 bytes
BadArg(op) ==
  \/ Len(op[2]) # 32
  \/ op[1] = VTX_OP_INSERT /\ Len(op[3]) > 1023

\* an element of a batch with a key that is not 32 bytes long or with an op
\* code that is neither insert nor remove
BadEntry(op) ==
  \/ Len(op[2]) # URKEL_HASH_SIZE
  \/ op[1] \notin {VTX_OP_INSERT, VTX_OP_REMOVE}

MutationApis == {"tx_insert_sync", "tx_insert", "tx_apply_sync", "tx_apply"}

Mutate(api, tree, tx, ops) ==
  CASE api = "tx_insert_sync" -> nurkel_tx_insert_sync(tree, tx, ops[1][2], ops[1][3])
    [] api = "tx_insert" -> nurkel_tx_insert(tree, tx, ops[1][2], ops[1][3])
    [] api = "tx_apply_sync" -> nurkel_tx_apply_sync(tree, tx, ops)
    [] api = "tx_apply" -> nurkel_tx_apply(tree, tx, ops)

\* one call of a mutation; the transaction the call found, whether an
\* argument was of a wrong length and whether an element had a wrong key or
\* op are kept with the result
DMutate ==
  \E api \in MutationApis, ops \in ArgBatches :
    LET r == Mutate(api, dtree, dtx.tx, ops)
    IN /\ dobs.op = "idle"
       /\ dtx.open
       /\ api \in {"tx_insert_sync", "tx_insert"} =>
            Len(ops) = 1 /\ ops[1][1] = VTX_OP_INSERT
       /\ dtx' = [dtx EXCEPT !.tx = r.tx, !.pristine = FALSE]
       /\ dobs' = [Obs("mutate", api, ZeroData, r.out)
                    EXCEPT !.tx = dtx.tx,
                           !.bad = \E i \in 1..Len(ops) : BadArg(ops[i]),
                           !.badentry = \E i \in 1..Len(ops) : BadEntry(ops[i]),
                           !.len = Len(ops)]
       /\ UNCHANGED <<dcomp, dtree, dsnap>>
       /\ UNCHANGED nonDataVars

NextArgs == DMutate \/ DReturn

SpecArgs == InitRead /\ [][NextArgs]_vars

(***************************************************************************)
(* Lifecycle of the handles (SpecClose): a tree handle from tree_init on,  *)
(* its transaction and iterator handles, the close requests of the callers,*)
(* of the parents and of the finalizers, opens that fail, and verify calls *)
(* in between.                                                             *)
(***************************************************************************)
\* a tree_open without the assertion that the tree is not opening
TreeOpenWhileOpening ==
  LET S == LifeState
      id == FreeId(works)
  IN /\ Running
     /\ Reachable(ntree)
     /\ ntree.state \in {"closed", "opening"}
     /\ ntree.close_worker = 0
     /\ FreeIds(works) # {}
     /\ SetLifeState([S EXCEPT
          !.works[id] = [NewWork("tree_open", TRUE) EXCEPT !.phase = "queued"],
          !.ntree.workers = @ + 1,
          !.ntree.state = "opening"])
     /\ lobs' = LIdle
     /\ UNCHANGED nonLifeVars

\* tree.c:406 nurkel_tree_open
TreeOpen ==
  LET S == LifeState
      id == FreeId(works)
  IN /\ Running
     /\ Reachable(ntree)
     /\ ntree.state = "closed"
     /\ ntree.close_worker = 0
     /\ FreeIds(works) # {}
     /\ SetLifeState([S EXCEPT
          !.works[id] = [NewWork("tree_open", TRUE) EXCEPT !.phase = "queued"],
          !.ntree.workers = @ + 1,
          !.ntree.state = "opening"])
     /\ lobs' = LIdle
     /\ UNCHANGED nonLifeVars

\* tree.c:471 nurkel_tree_close
TreeClose ==
  LET S2 == nurkel_final_check(nurkel_queue_close_worker(LifeState, TRUE))
  IN /\ Running
     /\ Reachable(ntree)
     /\ nurkel_ready(ntree) = "ok"
     /\ SetLifeState(S2)
     /\ lobs' = [LIdle EXCEPT !.fault = S2.fault]
     /\ UNCHANGED nonLifeVars

\* tree.c:547 nurkel_tree_root_hash
TreeRootHash ==
  LET S == LifeState
      id == FreeId(works)
  IN /\ Running
     /\ Reachable(ntree)
     /\ nurkel_ready(ntree) = "ok"
     /\ FreeIds(works) # {}
     /\ SetLifeState([S EXCEPT
          !.works[id] = [NewWork("tree_root_hash", TRUE) EXCEPT !.phase = "queued"],
          !.ntree.workers = @ + 1])
     /\ lobs' = LIdle
     /\ UNCHANGED nonLifeVars

\* tree.c:299 nurkel_ntree_destroy: the garbage collector finalizes the
\* handle of the tree; the reference ntree->ref is weak when its count is 0
TreeDestroy ==
  LET S2 == nurkel_ntree_destroy(LifeState)
  IN /\ Running
     /\ Reachable(ntree)
     /\ ntree.ref = 0
     /\ SetLifeState(S2)
     /\ lobs' = [LIdle EXCEPT !.fault = S2.fault]
     /\ UNCHANGED nonLifeVars

\* transaction.c:326 nurkel_tx_init: a transaction handle of the tree
TxInit ==
  /\ Running
  /\ Reachable(ntree)
  /\ nurkel_ready(ntree) = "ok"
  /\ ~ntx.alloc
  /\ \A i \in WorkIds :
       works[i].kind \notin {"tx_open", "tx_close", "tx_insert", "tx_commit",
                             "iter_next", "iter_close"}
  /\ ntx' = InitTx
  /\ ntree' = [ntree EXCEPT !.ref = @ + 1]
  /\ lobs' = LIdle
  /\ UNCHANGED <<niter, works>>
  /\ UNCHANGED nonLifeVars

\* transaction.c:209 nurkel_ntx_destroy: the garbage collector finalizes
\* the handle of the transaction
TxDestroy ==
  LET S2 == nurkel_ntx_destroy(LifeState)
  IN /\ Running
     /\ Reachable(ntx)
     /\ ntx.ref = 0
     /\ SetLifeState(S2)
     /\ lobs' = [LIdle EXCEPT !.fault = S2.fault]
     /\ UNCHANGED nonLifeVars

\* transaction.c:1854 nurkel_niter_destroy: the garbage collector finalizes
\* the handle of the iterator
IterDestroy ==
  LET S2 == nurkel_niter_destroy(LifeState)
  IN /\ Running
     /\ Reachable(niter)
     /\ SetLifeState(S2)
     /\ lobs' = [LIdle EXCEPT !.fault = S2.fault]
     /\ UNCHANGED nonLifeVars

\* the tree the proofs of the verify calls are made on
VerifyTree == ReadTree({<<DKeyA, <<1>>>>})

\* root, key, proof and length of the buffer of the proof of the verify
\* calls: the proof of a key the tree holds, of one it lacks, and a proof
\* given with the key of another, in buffers of the longest length a proof
\* can have; and a buffer that is one byte longer
VerifyArgs ==
  {<<urkel_root(VerifyTree), DKeyA, urkel_prove(VerifyTree, DKeyA).proof,
     URKEL_PROOF_SIZE>>,
   <<urkel_root(VerifyTree), DKeyC, urkel_prove(VerifyTree, DKeyC).proof,
     URKEL_PROOF_SIZE>>,
   <<UnknownRoot, DKeyA, urkel_prove(VerifyTree, DKeyA).proof,
     URKEL_PROOF_SIZE>>,
   <<urkel_root(VerifyTree), DKeyA, urkel_prove(VerifyTree, DKeyA).proof,
     URKEL_PROOF_SIZE + 1>>}

\* tree.c:1120 nurkel_verify_sync
VerifySync ==
  \E a \in VerifyArgs :
    /\ Running
    /\ lobs' = [LIdle EXCEPT !.op = "verify_sync",
                             !.out = nurkel_verify_sync_len(a[1], a[2], a[3], a[4]),
                             !.args = a]
    /\ UNCHANGED <<ntree, ntx, niter, works>>
    /\ UNCHANGED nonLifeVars

\* tree.c:1240 nurkel_verify: the work is queued with copies of root, key
\* and proof, the buffer of the proof copied at the length it has
Verify ==
  \E a \in VerifyArgs :
    LET S == LifeState
        id == FreeId(works)
    IN /\ Running
       /\ FreeIds(works) # {}
       /\ SetLifeState([S EXCEPT
            !.works[id] = [NewWork("verify", TRUE) EXCEPT !.phase = "queued",
                                                          !.args = a]])
       /\ lobs' = [LIdle EXCEPT !.op = "verify_call", !.args = a]
       /\ UNCHANGED nonLifeVars

CloseStart ==
  /\ ntree = InitTree
  /\ ntx = NoTx
  /\ niter = InitIter
  /\ works = [i \in WorkIds |-> NoWork]
  /\ lobs = LIdle

InitClose == BitsStart /\ DataStart /\ CloseStart

NextClose ==
  \/ TreeOpen
  \/ TreeClose
  \/ TreeRootHash
  \/ TreeDestroy
  \/ TxInit
  \/ TxOpen
  \/ TxClose
  \/ TxInsert
  \/ TxDestroy
  \/ IterInit
  \/ IterNext
  \/ IterClose
  \/ IterDestroy
  \/ Exec
  \/ Complete

SpecClose == InitClose /\ [][NextClose]_vars

\* the closes of the caller only: no finalizer runs; the works in flight
\* are the opens, the nexts and tree_root_hash
NextShut ==
  \/ TreeOpen
  \/ TreeClose
  \/ TreeRootHash
  \/ TxInit
  \/ TxOpen
  \/ TxClose
  \/ IterInit
  \/ IterNext
  \/ IterClose
  \/ Exec
  \/ Complete

\* every work that is queued is run by the thread pool, and the complete
\* callback of every work that ended is run by the main thread
SpecShut == InitClose /\ [][NextShut]_vars /\ WF_vars(Exec) /\ WF_vars(Complete)

\* the closes of the caller and of the finalizers; the works in flight are
\* the opens, the nexts and tree_root_hash
NextReap ==
  \/ TreeOpen
  \/ TreeClose
  \/ TreeRootHash
  \/ TreeDestroy
  \/ TxInit
  \/ TxOpen
  \/ TxClose
  \/ TxDestroy
  \/ IterInit
  \/ IterNext
  \/ IterClose
  \/ IterDestroy
  \/ Exec
  \/ Complete

\* the exec of the work of a slot runs to its end
ExecOf(i) ==
  /\ Exec
  /\ works[i].phase = "queued"
  /\ works'[i].phase = "done" \/ lobs'.fault # "none"

\* the complete callback of the work of a slot runs
CompleteOf(i) ==
  /\ Complete
  /\ works[i].phase = "done"
  /\ works'[i].phase # "done" \/ lobs'.fault # "none"

\* the thread pool takes the queued works in their order, so each of them is
\* run, and the main thread runs the complete callback of each work that
\* ended
SpecReap ==
  /\ InitClose
  /\ [][NextReap]_vars
  /\ \A i \in WorkIds : WF_vars(ExecOf(i)) /\ WF_vars(CompleteOf(i))

\* iter_init with the wider range of cache_max_size
IterInitWide == IterInitOf(1..WideCacheMaxSize)

\* the batches of the iterators: transactions of no, one and two keys, and
\* iterators whose cache holds fewer entries, as many, and more
NextIter ==
  \/ TxOpen
  \/ TxInsertSync
  \/ IterInitWide
  \/ IterNext
  \/ IterNextSync
  \/ IterClose
  \/ Exec
  \/ Complete

SpecIter == InitLife /\ [][NextIter]_vars

\* verify calls between the steps of the handles
NextVerify ==
  \/ TreeOpen
  \/ TreeClose
  \/ TxInit
  \/ TxOpen
  \/ IterInit
  \/ IterNext
  \/ VerifySync
  \/ Verify
  \/ Exec
  \/ Complete

SpecVerify == InitClose /\ [][NextVerify]_vars

(***************************************************************************)
(* Properties of BitPath (checked under SpecBits)                          *)
(***************************************************************************)

\* C4: for every valid BitPath p (size within 0..256, bits past the size
\* zero), reading back the bytes produced by write(p) succeeds and yields a
\* BitPath with the same size and the same data as p.
C4_RoundTrip ==
  (bop = "write_read" /\ ValidBits(bin)) =>
    /\ bout.ok = 1
    /\ bout.bits = bin
    /\ bout.n = urkel_bits_size(bin)

\* a valid path that takes the two-byte length form was written and read back
C4_Witness ==
  /\ bop = "write_read"
  /\ ValidBits(bin)
  /\ bin.size >= 128
  /\ bin.data # ZeroData
  /\ bout.ok = 1

\* C5 as stated: when collide returns, its result equals
\* slice(path, 0, count(path, key, depth)), so it starts at bit 0 of path.
C5_AsStated ==
  (bop = "collide" /\ bout.ok = 1) =>
    bout.bits = urkel_bits_slice(bin, 0, urkel_bits_count(bin, bkey, bdepth))

\* C5: collide(path, key, depth) needs depth <= path.size (it aborts
\* otherwise); its result starts at bit depth of path: it holds the n bits
\* path[depth .. depth + n - 1], where n is the number of consecutive
\* positions from depth on at which path and key carry the same bit, bounded
\* by the end of the path.
C5_CollideFromDepth ==
  bop = "collide" =>
    IF bdepth > bin.size THEN bout.ok = 0
    ELSE
      LET n == bout.bits.size
          len == Min(bin.size - bdepth, URKEL_KEY_BITS - bdepth)
      IN /\ bout.ok = 1
         /\ n >= 0 /\ n <= len
         /\ \A i \in 0..(n - 1) :
              /\ urkel_bits_get(bin, bdepth + i) = urkel_get_bit(bkey, bdepth + i)
              /\ urkel_bits_get(bout.bits, i) = urkel_bits_get(bin, bdepth + i)
         /\ n < len =>
              urkel_bits_get(bin, bdepth + n) # urkel_get_bit(bkey, bdepth + n)
         /\ \A i \in n..(URKEL_KEY_BITS - 1) : urkel_bits_get(bout.bits, i) = 0

\* collide ran at a depth past 0, found matching bits and stopped at a
\* differing bit before the end of the path
C5_Witness ==
  /\ bop = "collide"
  /\ bdepth > 0
  /\ bout.ok = 1
  /\ bout.bits.size > 0
  /\ bout.bits.size < bin.size - bdepth

(***************************************************************************)
(* Properties of the committed data (checked under SpecData)               *)
(***************************************************************************)

\* C1: for every committed root and every key, verifying the proof that
\* prove built for the key at that root answers with the value exactly when
\* get at that root gives this value, and with "does not exist" (code
\* URKEL_OK, null value) exactly when the key is absent at that root.
C1_ProveVerify ==
  dobs.op = "prove_verify" =>
    LET g == nurkel_tree_get_sync(dtree, dobs.key)
    IN /\ g.kind = "return"
       /\ dobs.out = JsResolve(JsArray("URKEL_OK", g.val))

\* a key that is absent from a tree holding other keys was proven absent,
\* after a key of that tree was proven present
C1_Witness ==
  /\ dobs.op = "prove_verify"
  /\ Len(dtree.roots) = MaxCommits
  /\ dobs.out.val[3] # JsNull
  /\ \E k \in DKeys : nurkel_tree_get_sync(dtree, k) = JsReturn(JsNull)

\* C2: when a commit succeeds, every key inserted in the transaction (and
\* not removed again before the commit) reads, at the root the commit
\* returned, exactly the value inserted last.
C2_InsertGet ==
  (dobs.op = "tx_commit" /\ dobs.out.kind \in {"return", "resolve"}) =>
    /\ dobs.out.val = JsBuffer(urkel_root(dtree))
    /\ \A kv \in dobs.inserted :
         /\ nurkel_tree_get_complete(nurkel_tree_get_exec(dtree, kv[1]))
              = JsResolve(JsBuffer(kv[2]))
         /\ ViewAt(dtree, dobs.out.val[2])[kv[1]] = JsReturn(JsBuffer(kv[2]))

\* a second commit succeeded that carried two inserts
C2_Witness ==
  /\ dobs.op = "tx_commit"
  /\ dobs.api = "tx_commit"
  /\ dobs.out.kind = "resolve"
  /\ Len(dtree.roots) = 2
  /\ Cardinality(dobs.inserted) = 2

\* C3: when a commit succeeds, every key whose last edit in the transaction
\* was a remove is reported as not present at the root the commit returned.
C3_RemoveHas ==
  (dobs.op = "tx_commit" /\ dobs.out.kind \in {"return", "resolve"}) =>
    \A k \in dobs.removed :
      /\ nurkel_tree_has_complete(nurkel_tree_has_exec(dtree, k))
           = JsResolve(JsBoolean(FALSE))
      /\ nurkel_tree_has_sync(dtree, k) = JsReturn(JsBoolean(FALSE))

\* a commit succeeded that removed a key committed before and left another
\* key in the tree
C3_Witness ==
  /\ dobs.op = "tx_commit"
  /\ dobs.out.kind \in {"return", "resolve"}
  /\ dobs.removed # {}
  /\ Len(dtree.roots) = 2
  /\ \E k \in dobs.removed : dsnap[1].view[k] # JsReturn(JsNull)
  /\ \E k \in DKeys : nurkel_tree_has_sync(dtree, k) = JsReturn(JsBoolean(TRUE))

\* C9: what a transaction opened at a root returned by an earlier commit
\* reads for a key is what was read at that root right after that commit,
\* however many commits followed.
C9_RootsStayReadable ==
  \A i \in 1..Len(dsnap) : ViewAt(dtree, dsnap[i].root) = dsnap[i].view

\* two commits were made and the second changed what the keys read
C9_Witness ==
  /\ Len(dsnap) = 2
  /\ dsnap[1].root # dsnap[2].root
  /\ \E k \in DKeys : /\ dsnap[1].view[k] # JsReturn(JsNull)
                       /\ dsnap[2].view[k] = JsReturn(JsNull)
  /\ \E k \in DKeys : /\ dsnap[1].view[k] = JsReturn(JsNull)
                       /\ dsnap[2].view[k] # JsReturn(JsNull)

\* C10: clear() on a transaction that went through inserts and removes only
\* since it was opened leaves root(tx) equal to the root the transaction was
\* opened against, and every key reads in it what it reads at that root.
C10_ClearRestoresInitRoot ==
  (dobs.op = "tx_clear" /\ dobs.pristine) =>
    /\ dobs.out = JsReturn(JsUndefined)
    /\ nurkel_tx_root_hash_sync(dtree, dtx.tx) = JsReturn(JsBuffer(dtx.init_root))
    /\ \A k \in DKeys :
         nurkel_tx_get_sync(dtree, dtx.tx, k) = ViewAt(dtree, dtx.init_root)[k]

\* a transaction opened against a committed root was cleared with an insert
\* and a remove pending
C10_Witness ==
  /\ dobs.op = "tx_clear"
  /\ dobs.pristine
  /\ dobs.inserted # {}
  /\ dobs.removed # {}
  /\ dtx.init_root # ZeroHash

(***************************************************************************)
(* Properties of the lookups (checked under SpecRead)                      *)
(***************************************************************************)

\* C6 as stated: a lookup of a key that is absent where the lookup looks
\* (tree get/has, transaction get/has, sync or async) returns, or resolves
\* with, null or false; it neither throws nor rejects.
C6_AbsentIsNegative ==
  (dobs.op = "lookup" /\ ~Present(dobs.api, dtree, dtx.tx, dobs.key)) =>
    /\ dobs.out.kind \in {"return", "resolve"}
    /\ dobs.out.val = JsNull \/ dobs.out.val = JsBoolean(FALSE)

(***************************************************************************)
(* Properties of the handles (checked under Spec)                          *)
(***************************************************************************)

\* C7: at most one next is in flight on the iterator at any time, and a
\* next (sync or async) called while an earlier next has not completed
\* throws and leaves the iterator and the works as it found them.
C7_OneNextInFlight ==
  /\ Cardinality(WorksOf(works, "iter_next")) <= 1
  /\ (lobs.op \in {"iter_next", "iter_next_sync"} /\ lobs.busy) =>
       /\ lobs.out.kind = "throw"
       /\ niter = lobs.iter
       /\ works = lobs.works

\* a next was refused while the exec of an earlier next had entries to hand
\* out
C7_Witness ==
  /\ lobs.op \in {"iter_next", "iter_next_sync"}
  /\ lobs.busy
  /\ lobs.out = JsThrow("Already nexting.")
  /\ \E i \in WorksOf(works, "iter_next") : works[i].phase = "queued"
  /\ Len(niter.iter) > 0

KeyLess(a, b) ==
  \E j \in 1..URKEL_KEY_SIZE :
    /\ a[j] < b[j]
    /\ \A k \in 1..(j - 1) : a[k] = b[k]

\* the entries an exec of iter_next put in the buffer and whose complete
\* has not run yet
IterPending ==
  IF \E i \in WorksOf(works, "iter_next") : works[i].phase = "done"
  THEN IterBatch(niter) ELSE <<>>

\* C11: between iter_init and the end-of-iteration signal (a batch shorter
\* than cache_max_size) the batches handed out by next and nextSync, put one
\* after the other, list every key the transaction held at iter_init exactly
\* once, in strictly increasing bit-path order.
C11_IterationOrder ==
  /\ niter.iter_live =>
       /\ \A i, j \in 1..Len(niter.view) :
            i < j => KeyLess(niter.view[i][1], niter.view[j][1])
       /\ {niter.view[i][1] : i \in 1..Len(niter.view)} = niter.view_keys
       /\ niter.seen \o IterPending \o niter.iter = niter.view
  /\ (/\ lobs.op \in {"iter_next_sync", "iter_next_complete"}
      /\ lobs.out.kind \in {"return", "resolve"}
      /\ Len(lobs.batch) < lobs.max) =>
       lobs.iter.seen = lobs.iter.view

\* an async next resolved with the empty batch after the two keys of the
\* transaction, inserted in the other order, had been handed out
C11_Witness ==
  /\ lobs.op = "iter_next_complete"
  /\ lobs.out.kind = "resolve"
  /\ lobs.batch = <<>>
  /\ Len(lobs.iter.view) = 2
  /\ lobs.iter.seen = lobs.iter.view
  /\ KeyLess(lobs.iter.view[1][1], lobs.iter.view[2][1])

\* C12: a proof built for a key against one root never verifies against
\* the hash of a different root: verify answers [URKEL_EHASHMISMATCH, null],
\* never URKEL_OK with or without a value.
C12_OtherRootMismatch ==
  dobs.op = "prove_verify_other" =>
    dobs.out = JsReturn(JsArray("URKEL_EHASHMISMATCH", JsNull))

\* the proof of a key that the current root holds was verified against an
\* earlier committed root that holds the key too
C12_Witness ==
  /\ dobs.op = "prove_verify_other"
  /\ dobs.api = "tree_prove"
  /\ urkel_get(dtree, dobs.key).ok = 1
  /\ \E i \in 1..Len(dtree.roots) :
       /\ dtree.roots[i].hash = dobs.root
       /\ urkel_node_get(dtree.store, dtree.roots[i].node, dobs.key, 0).ok = 1

\* C13: for a store compacted at a root, every key present at that root
\* reads from the compacted store exactly what it read at that root before
\* the compaction.
C13_CompactionPreserves ==
  (dobs.op = "compact_get" /\ urkel_find_root(dtree, dobs.root).found = 1) =>
    LET before == ViewAt(dtree, dobs.root)[dobs.key]
    IN before # JsReturn(JsNull) => dobs.out = before

\* a key was read from a store compacted at the first of two committed
\* roots, which held the key while the second did not
C13_Witness ==
  /\ dobs.op = "compact_get"
  /\ Len(dtree.roots) = 2
  /\ dobs.root = dtree.roots[1].hash
  /\ ViewAt(dtree, dobs.root)[dobs.key] # JsReturn(JsNull)
  /\ nurkel_tree_get_sync(dtree, dobs.key) = JsReturn(JsNull)
  /\ Len(dcomp.tree.store) < Len(dtree.store)

\* C14: join(left, right, bit) is left, then bit, then right, of size
\* left.size + right.size + 1; so the two parts of split(p, i), joined around
\* bit i of p, give back p, for every valid path p and every i < p.size.
C14_JoinInvertsSplit ==
  /\ (bop = "join" /\ bout.left.size + bout.right.size + 1 <= URKEL_KEY_BITS) =>
       /\ bout.ok = 1
       /\ bout.bits.size = bout.left.size + bout.right.size + 1
       /\ \A i \in 0..(URKEL_KEY_BITS - 1) :
            urkel_bits_get(bout.bits, i) =
              IF i < bout.left.size THEN urkel_bits_get(bout.left, i)
              ELSE IF i = bout.left.size THEN bout.n
              ELSE IF i < bout.bits.size
              THEN urkel_bits_get(bout.right, i - bout.left.size - 1)
              ELSE 0
  /\ bop = "split_join" => (bout.ok = 1 /\ bout.bits = bin)

\* a path longer than one byte was split inside a byte, away from its ends,
\* and joined again; and two non-empty paths were joined around a set bit
\* that falls inside a byte
C14_Witness ==
  \/ /\ bop = "split_join"
     /\ bin.size > 128
     /\ bdepth % 8 # 0
     /\ bout.left.data # ZeroData
     /\ bout.right.data # ZeroData
     /\ bout.bits = bin
  \/ /\ bop = "join"
     /\ bout.ok = 1
     /\ bout.left.size % 8 # 0
     /\ bout.left.data # ZeroData
     /\ bout.right.data # ZeroData
     /\ bout.n = 1

\* C15: split(path, index), with index < path.size, returns as left the
\* bits [0, index) of path and as right the bits [index + 1, path.size): the
\* bit at index is in neither, and left.size + right.size + 1 = path.size.
C15_SplitParts ==
  bop = "split_join" =>
    /\ bout.left.size = bdepth
    /\ bout.right.size = bin.size - bdepth - 1
    /\ bout.left.size + bout.right.size + 1 = bin.size
    /\ \A i \in 0..(URKEL_KEY_BITS - 1) :
         /\ urkel_bits_get(bout.left, i) =
              IF i < bdepth THEN urkel_bits_get(bin, i) ELSE 0
         /\ urkel_bits_get(bout.right, i) =
              IF i < bin.size - bdepth - 1
              THEN urkel_bits_get(bin, bdepth + 1 + i) ELSE 0

\* a path was split at a set bit inside a byte, with bits set on both sides
C15_Witness ==
  /\ bop = "split_join"
  /\ bdepth % 8 # 0
  /\ urkel_bits_get(bin, bdepth) = 1
  /\ bout.left.data # ZeroData
  /\ bout.right.data # ZeroData
  /\ bout.right.size > 8

\* the size a buffer encodes: the first byte, or with its high bit set its
\* low seven bits followed by the second byte
DecodedSize(buf) ==
  IF buf[1] >= 128 THEN (buf[1] - 128) * 256 + buf[2] ELSE buf[1]

\* C16: read(buf) fails when the buffer is empty, when the two-byte length
\* form lacks its second byte or encodes a size below 128, when the size is
\* above 256, or when fewer than ceil(size / 8) data bytes remain; in every
\* other case it succeeds with the decoded size and the data bytes.
C16_ReadRejects ==
  bop = "read" =>
    LET buf == bout.bytes
        len == Len(buf)
        two == len >= 1 /\ buf[1] >= 128
        off == IF two THEN 2 ELSE 1
        fails == \/ len = 0
                 \/ two /\ len < 2
                 \/ two /\ DecodedSize(buf) < 128
                 \/ DecodedSize(buf) > 256
                 \/ len - off < (DecodedSize(buf) + 7) \div 8
    IN IF fails THEN bout.ok = 0
       ELSE /\ bout.ok = 1
            /\ bout.bits.size = DecodedSize(buf)
            /\ \A j \in 1..URKEL_KEY_SIZE :
                 bout.bits.data[j] =
                   IF j <= (DecodedSize(buf) + 7) \div 8 THEN buf[off + j] ELSE 0

\* a buffer in the two-byte form that encodes a size below 128 and has all
\* the data bytes of that size was refused
C16_Witness ==
  /\ bop = "read"
  /\ bout.ok = 0
  /\ Len(bout.bytes) >= 2
  /\ bout.bytes[1] = 128
  /\ bout.bytes[2] < 128
  /\ Len(bout.bytes) - 2 >= (bout.bytes[2] + 7) \div 8

\* C17: write(path) emits, when size >= 128, the byte 0x80 | (size >> 8) and
\* then the byte size & 0xFF, otherwise the one byte size; then exactly
\* ceil(size / 8) bytes of data. The length written is the length that
\* urkel_bits_size reports, for every size in 0..256.
C17_WriteFormat ==
  bop = "write_read" =>
    LET w == bout.bytes
        size == bin.size
        hdr == IF size >= 128 THEN 2 ELSE 1
        bytes == (size + 7) \div 8
    IN /\ Len(w) = hdr + bytes
       /\ size >= 128 => (w[1] = 128 + (size \div 256) /\ w[2] = size % 256)
       /\ size < 128 => w[1] = size
       /\ \A j \in 1..bytes : w[hdr + j] = bin.data[j]
       /\ Len(w) = urkel_bits_size(bin)

\* a path of 256 bits was written: 0x81, 0x00 and 32 bytes of data
C17_Witness ==
  /\ bop = "write_read"
  /\ bin.size = URKEL_KEY_BITS
  /\ bout.bytes[1] = 129
  /\ bout.bytes[2] = 0
  /\ Len(bout.bytes) = 34
  /\ bout.bytes[34] # 0

\* C18: count(path, key, depth) is the largest n, at most
\* min(path.size, 256 - depth), such that bit i of path equals bit depth + i
\* of key for every i < n.
C18_CountIsLongestMatch ==
  bop = "count" =>
    LET n == bout.n
        cap == Min(bin.size, URKEL_KEY_BITS - bdepth)
    IN /\ n >= 0 /\ n <= cap
       /\ \A i \in 0..(n - 1) :
            urkel_bits_get(bin, i) = urkel_get_bit(bkey, bdepth + i)
       /\ n < cap => urkel_bits_get(bin, n) # urkel_get_bit(bkey, bdepth + n)

\* at a depth inside the key the count stopped at a differing bit after more
\* than a byte of equal bits
C18_Witness ==
  /\ bop = "count"
  /\ bdepth > 0
  /\ bkey # ZeroData
  /\ bout.n > 8
  /\ bout.n < Min(bin.size, URKEL_KEY_BITS - bdepth)

\* C19 as stated: every BitPath that an operation produces (slice and split,
\* join, collide, and a successful read of arbitrary bytes) has a size of
\* at most 256 and only zero bits at the positions from its size on.
C19_OutputsAreValid ==
  (bop \in {"collide", "split_join", "join", "read"} /\ bout.ok = 1) =>
    /\ ValidBits(bout.bits)
    /\ ValidBits(bout.left)
    /\ ValidBits(bout.right)

\* what holds of the outputs: those of slice, split, join and collide on
\* valid paths are valid; a read yields a size of at most 256 and zero bytes
\* past the ceil(size / 8) it copied, the bits of the last copied byte are
\* the buffer's
C19_ValidButForRead ==
  /\ (bop \in {"collide", "split_join", "join"} /\ bout.ok = 1) =>
       /\ ValidBits(bout.bits)
       /\ ValidBits(bout.left)
       /\ ValidBits(bout.right)
  /\ (bop = "read" /\ bout.ok = 1) =>
       /\ bout.bits.size <= URKEL_KEY_BITS
       /\ \A j \in 1..URKEL_KEY_SIZE :
            j > (bout.bits.size + 7) \div 8 => bout.bits.data[j] = 0

\* every Internal node under a node has two children that are not Null
RECURSIVE TwoChildren(_, _)
TwoChildren(st, node) ==
  LET n == urkel_store_read(st, node)
  IN n.t = "internal" =>
       /\ urkel_store_read(st, n.left).t # "null"
       /\ urkel_store_read(st, n.right).t # "null"
       /\ TwoChildren(st, n.left)
       /\ TwoChildren(st, n.right)

\* every key under a node is reached by the descent of get: the prefixes
\* and branch bits on the way to a Leaf are the bits of its key
EdgesMatchKeys(st, node) ==
  LET leaves == urkel_iter_leaves(st, node)
  IN \A i \in 1..Len(leaves) : urkel_node_get(st, node, leaves[i][1], 0).ok = 1

\* the roots in use: the working root of the open transaction and every
\* committed root
TrieRoots ==
  (IF dtx.open THEN {dtx.tx.root} ELSE {})
  \cup {dtree.roots[i].node : i \in 1..Len(dtree.roots)}

\* C20: after any sequence of inserts and removes every Internal node of
\* the trie has two children that are not Null: a removal that leaves a
\* parent with one child collapses the parent into the edge of that child
\* (join), under which every remaining key is still found.
C20_InternalHasTwoChildren ==
  \A node \in TrieRoots :
    /\ TwoChildren(dtree.store, node)
    /\ EdgesMatchKeys(dtree.store, node)

\* the transaction was opened at a root that held the three keys and
\* removed the one that branched off first: its root, an Internal node with
\* an Internal child before, is now the collapsed node with two leaves
C20_Witness ==
  /\ dtx.open
  /\ dtx.removed = {DKeyC}
  /\ dtx.inserted = {}
  /\ \A k \in DKeys : urkel_node_get(dtree.store, dtx.tx.init, k, 0).ok = 1
  /\ dtx.tx.root.t = "internal"
  /\ dtx.tx.root.prefix.size = 17
  /\ urkel_store_read(dtree.store, dtx.tx.root.left).t = "leaf"
  /\ urkel_store_read(dtree.store, dtx.tx.root.right).t = "leaf"

(***************************************************************************)
(* Arguments of the mutations (checked under SpecArgs)                     *)
(***************************************************************************)

\* C21: a call of insert, insert_sync, apply or apply_sync that is handed a
\* key that is not 32 bytes long, or a value of more than 1023 bytes, is
\* refused (it throws or its promise rejects) and leaves the edits of the
\* transaction as they were.
C21_BadArgsRejected ==
  (dobs.op = "mutate" /\ dobs.bad) =>
    /\ dobs.out.kind \in {"throw", "reject"}
    /\ dtx.tx = dobs.tx

\* what holds of the four entry points: the call is refused, and the edits
\* are unchanged when the call has one element only
C21_SingleRejected ==
  (dobs.op = "mutate" /\ dobs.bad) =>
    /\ dobs.out.kind \in {"throw", "reject"}
    /\ dobs.len = 1 => dtx.tx = dobs.tx

(***************************************************************************)
(* Properties of the lifecycle of the handles                              *)
(***************************************************************************)
\* what verify answers for root, key and proof: the code of urkel_verify and
\* the value, or null; for a buffer that is too long, the error of the entry
\* point
VerifyAnswer(op, a) ==
  LET res == urkel_verify(a[3], a[2], a[1])
  IN IF a[4] > URKEL_PROOF_SIZE
     THEN IF op = "verify_sync" THEN JsThrow("JS_ERR_ARG").val
          ELSE JsArray("URKEL_EINVAL", JsNull)
     ELSE IF res.ok = 0 THEN JsArray(res.errno, JsNull)
     ELSE IF res.exists # 0 THEN JsArray("URKEL_OK", JsBuffer(res.value))
     ELSE JsArray("URKEL_OK", JsNull)

\* the steps of verify: the call of verify_sync, the call of verify, the
\* exec of its work and its complete callback
VerifyOps == {"verify_sync", "verify_call", "verify_exec", "verify"}

\* C22: verify is a pure function that needs no handle: a call of verify or
\* verify_sync, in any lifecycle state of the tree, the transaction and the
\* iterator, changes nothing of the handles (state, worker counts, lists)
\* nor the works of the handles, and what it answers is a function of root,
\* key and proof only.
C22_VerifyIsPure ==
  [][lobs'.op \in VerifyOps =>
       /\ ntree' = ntree
       /\ ntx' = ntx
       /\ niter' = niter
       /\ \A i \in WorkIds :
            works[i].kind # "verify" /\ works'[i].kind # "verify"
              => works'[i] = works[i]
       /\ lobs'.op \in {"verify_sync", "verify"}
            => lobs'.out.val = VerifyAnswer(lobs'.op, lobs'.args)]_vars

\* a verify that was called while the tree was closing with its transaction
\* open answered with the value of the key
C22_Witness ==
  /\ lobs.op = "verify"
  /\ ntree.close_worker # 0
  /\ ntx.state \in {"open", "closing"}
  /\ lobs.out = JsResolve(JsArray("URKEL_OK", JsBuffer(<<1>>)))

FinalCheckFaults ==
  {"nurkel_final_check: CHECK(ntree->state == nurkel_state_open)",
   "nurkel_tx_final_check: CHECK(ntx->state == nurkel_state_open)"}

\* C23: whenever the final check of a tree or of a transaction dispatches
\* a queued close worker, the handle is open, so its CHECK(state == open)
\* never aborts the process, also when the close was queued while the
\* handle was opening (by the finalizer, or by the closing tree) and the
\* open then fails.
C23_DispatchFindsOpen == lobs.fault \notin FinalCheckFaults

TreeWorks == {"tree_open", "tree_root_hash"}
TxWorks == {"tx_open", "tx_insert", "tx_commit"}
IterWorks == {"iter_next"}

\* the works of the kinds that are created and not completed
InFlight(W, kinds) == {i \in WorkIds : W[i].kind \in kinds}

\* the close worker of the slot was handed to the thread pool
Dispatched(W, id) == W[id].phase \in {"queued", "done"}

\* C24: the native close of a tree or of a transaction is started only when
\* the handle has no other work in flight and its list of dependents is
\* empty, so urkel_close never runs while a work of the tree, a transaction
\* or an iterator is alive, and urkel_tx_destroy never while a work of the
\* transaction or an iterator is alive; no exec meets a closed handle.
C24_CloseWaits ==
  /\ Dispatched(works, TreeCloseId) =>
       /\ ntree.workers = 1
       /\ Len(ntree.tx_list) = 0
       /\ InFlight(works, TreeWorks \cup TxWorks \cup IterWorks
                          \cup {"tx_close", "iter_close"}) = {}
       /\ ~ntx.tx_live /\ ~niter.iter_live
  /\ Dispatched(works, TxCloseId) =>
       /\ ntx.workers = 1
       /\ ~niter.entry
       /\ InFlight(works, TxWorks \cup IterWorks \cup {"iter_close"}) = {}
       /\ ~niter.iter_live
  /\ lobs.fault \notin {"exec on a closed tree", "exec on a destroyed transaction",
                        "exec on a destroyed iterator"}

\* the close of the tree waits for the close of its transaction, which was
\* dispatched after its iterator was closed and its insert completed
C24_Witness ==
  /\ works[TreeCloseId].phase = "created"
  /\ works[TreeCloseId].deferred
  /\ works[TxCloseId].phase = "queued"
  /\ niter.alloc /\ niter.state = "closed"
  /\ ntx.tx.root # NodeNull

\* C25: urkel_iter_destroy never starts while a next is executing on the
\* iterator, no next is started once the close worker of the iterator was
\* dispatched, and a close requested during a next is dispatched only after
\* that next completed.
C25_DestroyAfterNext ==
  [][/\ Dispatched(works', IterCloseId) => InFlight(works', IterWorks) = {}
     /\ Dispatched(works, IterCloseId) => InFlight(works', IterWorks) = {}
     /\ (InFlight(works, IterWorks) # {} /\ ~Dispatched(works, IterCloseId)
         /\ Dispatched(works', IterCloseId))
          => InFlight(works', IterWorks) = {}]_vars

\* a close was requested while a next was in flight, and waits for it
C25_Witness ==
  /\ InFlight(works, IterWorks) # {}
  /\ works[IterCloseId].phase = "created"
  /\ niter.nexting

\* C26: once tree_close was accepted, and every work in flight completes,
\* the tree reaches the closed state and its close promise is settled,
\* whatever transactions and iterators are open or at work.
C26_CloseCompletes ==
  (works[TreeCloseId].kind = "tree_close" /\ works[TreeCloseId].deferred)
    ~> (ntree.state = "closed" /\ works[TreeCloseId].kind = "none")

\* the same for the runs in which no CHECK aborts the process
C26_CloseCompletesOrAborts ==
  (works[TreeCloseId].kind = "tree_close" /\ works[TreeCloseId].deferred)
    ~> ((ntree.state = "closed" /\ works[TreeCloseId].kind = "none") \/ ~Running)

\* C27: the transaction is in the list of its tree exactly while its state
\* is opening, open or closing, and never twice; the iterator is in the list
\* of its transaction exactly while its state is open or closing.
C27_ListsFollowState ==
  /\ Len(ntree.tx_list) <= 1
  /\ (Len(ntree.tx_list) = 1) <=> (ntx.alloc /\ ntx.state \in {"opening", "open", "closing"})
  /\ ntx.entry <=> (Len(ntree.tx_list) = 1)
  /\ niter.entry <=> (niter.alloc /\ niter.state \in {"open", "closing"})

\* the transaction is registered and about to close, with its iterator
\* closing and still registered
C27_Witness ==
  /\ ntree.tx_list = <<"tx">>
  /\ ntx.close_worker # 0
  /\ niter.state = "closing"
  /\ niter.entry

\* a close was requested on the handle
CloseRequested(h) == h.close_worker # 0 \/ h.state = "closing"

\* C28: after a close was requested on a handle, no operation on the handle
\* or on its dependents starts a work or makes a dependent: the works in
\* flight of the handle and of its dependents, its own close workers aside,
\* only go away.
C28_NoWorkAfterClose ==
  [][/\ CloseRequested(ntree) =>
          /\ InFlight(works', TreeWorks \cup TxWorks \cup IterWorks)
               \subseteq InFlight(works, TreeWorks \cup TxWorks \cup IterWorks)
          /\ ntx'.alloc => ntx.alloc
          /\ niter'.entry => niter.entry
     /\ CloseRequested(ntx) =>
          /\ InFlight(works', TxWorks \cup IterWorks)
               \subseteq InFlight(works, TxWorks \cup IterWorks)
          /\ niter'.entry => niter.entry
     /\ CloseRequested(niter) =>
          InFlight(works', IterWorks) \subseteq InFlight(works, IterWorks)]_vars

\* the close of the tree was requested while its transaction had an insert
\* in flight and an iterator with a next in flight
C28_Witness ==
  /\ ntree.close_worker # 0
  /\ ntree.state = "open"
  /\ InFlight(works, {"tx_insert"}) # {}
  /\ InFlight(works, IterWorks) # {}

\* C29: at most one close worker exists for a handle at a time: a request
\* that finds one makes no second, so urkel_close, urkel_tx_destroy and
\* urkel_iter_destroy run at most once for an open.
C29_OneCloseWorker ==
  /\ ntree.closers = IF ntree.close_worker # 0 THEN 1 ELSE 0
  /\ ntx.closers = IF ntx.close_worker # 0 THEN 1 ELSE 0
  /\ niter.closers = IF niter.close_worker # 0 THEN 1 ELSE 0
  /\ lobs.fault \notin {"urkel_close of a closed tree",
                        "urkel_tx_destroy of a destroyed transaction",
                        "urkel_iter_destroy of a destroyed iterator"}

\* the finalizer of the transaction ran after tx_close was called, and the
\* close worker is the one with the promise of the caller
C29_Witness ==
  /\ ntx.gc /\ ntx.alloc
  /\ ntx.close_worker # 0
  /\ works[TxCloseId].deferred
  /\ ntx.closers = 1

FreeFaults ==
  {"free(ntree) of a freed tree", "free(ntx) of a freed transaction",
   "free(niter) of a freed iterator",
   "CHECK(ntree->state == nurkel_state_closed)",
   "CHECK(ntx->state == nurkel_state_closed)",
   "CHECK(niter->state == nurkel_state_closed)",
   "CHECK(list->len == 0)",
   "exec on a freed tree", "exec on a freed transaction",
   "exec on a freed iterator", "callback on a freed handle"}

\* C30: a handle is freed at most once, and only when it is closed, without
\* work in flight and with an empty list of dependents; the tree is freed
\* after its transaction and the transaction after its iterator, so no exec
\* and no complete callback touches a freed handle.
C30_FreedOnceWhenClosed ==
  /\ lobs.fault \notin FreeFaults
  /\ ~niter.alloc =>
       /\ niter.state = "closed" /\ ~niter.nexting /\ ~niter.entry
       /\ InFlight(works, IterWorks \cup {"iter_close"}) = {}
  /\ ~ntx.alloc =>
       /\ ntx.state = "closed" /\ ntx.workers = 0 /\ ~ntx.entry
       /\ ~niter.alloc
       /\ InFlight(works, TxWorks \cup {"tx_close"}) = {}
  /\ ~ntree.alloc =>
       /\ ntree.state = "closed" /\ ntree.workers = 0 /\ Len(ntree.tx_list) = 0
       /\ ~ntx.alloc
       /\ InFlight(works, TreeWorks \cup {"tree_close"}) = {}

\* the iterator, the transaction and the tree were freed after their
\* finalizers ran
C30_Witness ==
  /\ ~niter.alloc /\ niter.gc
  /\ ~ntx.alloc /\ ntx.gc
  /\ ~ntree.alloc /\ ntree.gc
  /\ lobs.fault = "none"

\* the finalizer of the handle ran and the handle is not freed
Collected(h) == h.alloc /\ h.gc

\* C31: a tree, transaction or iterator handle that is garbage-collected is
\* eventually freed: at once when it is closed, after an automatically
\* queued close when it is opening, open or closing; no collected handle is
\* left unfreed.
C31_CollectedIsFreed ==
  /\ Collected(ntree) ~> ~ntree.alloc
  /\ Collected(ntx) ~> ~ntx.alloc
  /\ Collected(niter) ~> ~niter.alloc

\* the same for the runs in which no CHECK aborts the process
C31_CollectedIsFreedOrAborts ==
  /\ Collected(ntree) ~> (~ntree.alloc \/ ~Running)
  /\ Collected(ntx) ~> (~ntx.alloc \/ ~Running)
  /\ Collected(niter) ~> (~niter.alloc \/ ~Running)

\* a handle that is closed, without a close queued, when its finalizer runs
\* is freed by the finalizer; one that is not closed has a close worker
\* after the finalizer ran
C31_FinalizerFreesOrCloses ==
  [][/\ (~ntree.gc /\ ntree'.gc) =>
          IF ntree.state = "closed" /\ ntree.close_worker = 0
          THEN ~ntree'.alloc ELSE ntree'.close_worker # 0 \/ ~ntree'.alloc
     /\ (ntx.alloc /\ ~ntx.gc /\ ntx'.gc) =>
          IF ntx.state = "closed" /\ ntx.close_worker = 0
          THEN ~ntx'.alloc ELSE ntx'.close_worker # 0 \/ ~ntx'.alloc
     /\ (niter.alloc /\ ~niter.gc /\ niter'.gc) =>
          IF niter.state = "closed" /\ niter.close_worker = 0
          THEN ~niter'.alloc ELSE niter'.close_worker # 0 \/ ~niter'.alloc]_vars

\* C32: no two mutating operations of a transaction (insert, remove, apply,
\* commit, clear, inject; sync or async) execute at the same time: while
\* the exec of a commit is running on the thread pool, no insert and no
\* other commit calls liburkel on that transaction.
C32_OneMutationAtATime == \A i \in WorkIds : ~works[i].raced

\* C33: tx_apply and tx_apply_sync validate the whole batch before they
\* change the transaction: when an element of the batch has an unknown op
\* code or a key that is not 32 bytes long, the call throws and the
\* transaction is as the call found it, the valid elements before the bad
\* one not applied.
C33_BatchValidatedFirst ==
  (dobs.op = "mutate" /\ dobs.api \in {"tx_apply", "tx_apply_sync"} /\ dobs.badentry) =>
    /\ dobs.out \in {JsThrow("JS_ERR_ARG"), JsThrow("JS_ERR_INCORRECT_OP")}
    /\ dtx.tx = dobs.tx

\* the same for tx_apply alone, whose method looks at every element before
\* the work is queued
C33_ApplyValidatesFirst ==
  (dobs.op = "mutate" /\ dobs.api = "tx_apply" /\ dobs.badentry) =>
    /\ dobs.out = JsThrow("JS_ERR_ARG")
    /\ dtx.tx = dobs.tx

\* a verify call with a buffer of the proof longer than URKEL_PROOF_SIZE
LongProof(a) == a[4] > URKEL_PROOF_SIZE

\* C34: verify and verify_sync reject a proof buffer longer than
\* PROOF_SIZE_MAX (17957 bytes) as an invalid argument before any
\* verification work is started: the call throws JS_ERR_ARG and no verify
\* work holds such a buffer.
C34_LongProofRejected ==
  /\ (lobs.op \in {"verify_sync", "verify_call"} /\ LongProof(lobs.args))
       => lobs.out = JsThrow("JS_ERR_ARG")
  /\ \A i \in WorkIds : works[i].kind = "verify" => ~LongProof(works[i].args)

\* the same for verify_sync alone
C34_SyncRejectsLongProof ==
  (lobs.op = "verify_sync" /\ LongProof(lobs.args))
    => lobs.out = JsThrow("JS_ERR_ARG")

\* the steps that hand a batch to the caller
BatchOps == {"iter_next_sync", "iter_next_complete"}

\* C35: a next on an iterator returns at most cache_max_size entries, and
\* fewer than cache_max_size only when the iterator is exhausted; a next on
\* an exhausted iterator returns, or resolves with, the empty list and not
\* an error.
C35_BatchesFillTheCache ==
  [][/\ (lobs'.op \in BatchOps /\ lobs'.out.kind \in {"return", "resolve"}) =>
          /\ Len(lobs'.batch) <= lobs'.max
          /\ Len(lobs'.batch) < lobs'.max => lobs'.iter.iter = <<>>
     /\ (/\ lobs'.op = "iter_next_sync"
         /\ NURKEL_ITER_READY(LifeState) = "ok" /\ ~niter.nexting
         /\ niter.iter = <<>>) =>
          lobs'.out = JsReturn(<<"array", <<>>>>)
     /\ (lobs'.op = "iter_next_complete" /\ niter.seen = niter.view) =>
          lobs'.out = JsResolve(<<"array", <<>>>>)]_vars

\* an iterator with a cache of three entries over a transaction of two keys
\* handed out the two keys in one batch, and its next batch was empty
C35_Witness ==
  /\ lobs.op \in BatchOps
  /\ lobs.out.kind \in {"return", "resolve"}
  /\ lobs.max = WideCacheMaxSize
  /\ lobs.batch = <<>>
  /\ Len(lobs.iter.view) = 2
  /\ lobs.iter.seen = lobs.iter.view

\* the works of the kinds that were handed to the thread pool and whose
\* complete callback has not run
Queued(W, kinds) ==
  {i \in WorkIds : W[i].kind \in kinds /\ W[i].phase # "created"}

\* C36: the workers counter of a tree and of a transaction is the number of
\* the async works queued for the handle whose complete callback has not
\* run, its open and its close worker included, and is never below zero.
C36_WorkersCountWorks ==
  /\ ntree.workers = Cardinality(Queued(works, TreeWorks \cup {"tree_close"}))
  /\ ntx.workers = Cardinality(Queued(works, TxWorks \cup {"tx_close"}))
  /\ ntree.workers >= 0
  /\ ntx.workers >= 0

\* two inserts are in flight on the transaction, whose close worker is made
\* and not yet handed to the thread pool, and a close worker of the tree
\* waits as well
C36_Witness ==
  /\ ntx.workers = 2
  /\ works[TxCloseId].phase = "created"
  /\ works[TreeCloseId].phase = "created"
  /\ ntree.workers = 0

\* the steps of the lifecycle state of a handle
StateSteps ==
  {<<"closed", "opening">>, <<"opening", "open">>, <<"opening", "closed">>,
   <<"open", "closing">>, <<"closing", "closed">>}

\* the state of a handle before and after a step of the program: one step
\* of the lifecycle, or the two steps opening -> open -> closing that the
\* complete callback of an open makes when a close was queued meanwhile (it
\* sets open, and its final check hands the close worker to the thread pool)
StateStep(h, h2) ==
  \/ <<h.state, h2.state>> \in StateSteps
  \/ h.state = "opening" /\ h2.state = "closing" /\ h.close_worker # 0

\* the open of the transaction failed: it is closed again, with the root it
\* was asked to open at, which the store does not hold
OpenFailed(h) == h.alloc /\ h.state = "closed" /\ h.init_root = UnknownRoot

==============================================================================
